---- MODULE Spec2Model ----
(***************************************************************************)
(* Model of the export pipeline of src/src/from-ground-up.js: the Query    *)
(* and JoinQuery constructors, geojsonQueryDatabase / promiseOfGeoJson     *)
(* (Feature, warnify), KML_query_database / promiseKML (warnify,           *)
(* newFolder, newDocument), getKML (styleUrls, newPlaceMark) and           *)
(* makeKMZStream.                                                          *)
(*                                                                         *)
(* A JavaScript string the code transforms (a type, a warning text, a      *)
(* coordinate key) is a sequence of one-character strings; a JavaScript    *)
(* object is a function from its keys; an array is a sequence.  A call     *)
(* that can throw returns [ok |-> TRUE, val |-> v] or                       *)
(* [ok |-> FALSE, err |-> e].                                              *)
(***************************************************************************)
EXTENDS Integers, Sequences, FiniteSets, TLC

VARIABLES
    format,        \* "GeoJSON": get_geojson / promiseOfGeoJson, "KML": makeKMZStream / getKML / promiseKML
    areaId,        \* the area id of the request
    lang,          \* the language of the request
    pc,            \* position of the export: "start", "querying", "assembled", "done"; "unit" in the unit runs
    sent,          \* the query objects handed to client.query, in order
    clientQuery,   \* per layer, the promise client.query returned: rejected, or resolved with rows
    queryPromise,  \* per layer, the promise geojsonQueryDatabase / KML_query_database returned
    docPromise,    \* the promise returned by promiseOfGeoJson / promiseKML
    kmzPromise,    \* the promise returned by makeKMZStream
    delivered,     \* the documents the caller's then-handler received
    errLog,        \* number of console.error reports
    call,          \* unit runs: the function applied and its arguments
    ret            \* unit runs: what the call returned or threw

vars == <<format, areaId, lang, pc, sent, clientQuery, queryPromise, docPromise, kmzPromise, delivered, errLog, call, ret>>

-----------------------------------------------------------------------------
(* Sequences and JavaScript strings *)

Range(s) == {s[i] : i \in DOMAIN s}


\* Array.prototype.join / R.join over strings
RECURSIVE Join(_, _)
Join(parts, sep) ==
    IF parts = <<>> THEN <<>>
    ELSE IF Len(parts) = 1 THEN parts[1]
    ELSE parts[1] \o sep \o Join(Tail(parts), sep)

\* String.prototype.split / R.split with a non-empty separator
RECURSIVE SplitFrom(_, _, _)
SplitFrom(s, sep, cur) ==
    IF s = <<>> THEN <<cur>>
    ELSE IF Len(s) >= Len(sep) /\ SubSeq(s, 1, Len(sep)) = sep
         THEN <<cur>> \o SplitFrom(SubSeq(s, Len(sep) + 1, Len(s)), sep, <<>>)
         ELSE SplitFrom(Tail(s), sep, Append(cur, Head(s)))

Split(s, sep) == SplitFrom(s, sep, <<>>)

\* R.uniq: the first occurrence of every value, in order
RECURSIVE UniqFrom(_, _)
UniqFrom(s, seen) ==
    IF s = <<>> THEN <<>>
    ELSE IF Head(s) \in seen THEN UniqFrom(Tail(s), seen)
    ELSE <<Head(s)>> \o UniqFrom(Tail(s), seen \cup {Head(s)})

Uniq(s) == UniqFrom(s, {})

Digits == <<"0", "1", "2", "3", "4", "5", "6", "7", "8", "9">>

RECURSIVE NatToStr(_)
NatToStr(n) ==
    IF n < 10 THEN <<Digits[n + 1]>>
    ELSE NatToStr(n \div 10) \o <<Digits[(n % 10) + 1]>>

\* String(n) of a number, as join and toString apply it to a coordinate
NumToStr(n) == IF n < 0 THEN <<"-">> \o NatToStr(0 - n) ELSE NatToStr(n)

\* the JavaScript number NaN: a value no coordinate of the model takes
NaN == 0 - 1000000

DigitVal(c) == CHOOSE d \in 0..9 : Digits[d + 1] = c

RECURSIVE ParseDigits(_, _, _)
ParseDigits(s, acc, any) ==
    IF s = <<>> \/ Head(s) \notin Range(Digits)
    THEN (IF any THEN acc ELSE NaN)
    ELSE ParseDigits(Tail(s), acc * 10 + DigitVal(Head(s)), TRUE)

\* Number.parseFloat: the longest numeric prefix, NaN when there is none
ParseFloat(s) ==
    IF s # <<>> /\ Head(s) = "-"
    THEN (LET v == ParseDigits(Tail(s), 0, FALSE) IN IF v = NaN THEN NaN ELSE 0 - v)
    ELSE ParseDigits(s, 0, FALSE)

UpperChars == <<"A", "B", "C", "D", "E", "F", "G", "H", "I", "J", "K", "L", "M",
                "N", "O", "P", "Q", "R", "S", "T", "U", "V", "W", "X", "Y", "Z">>
LowerChars == <<"a", "b", "c", "d", "e", "f", "g", "h", "i", "j", "k", "l", "m",
                "n", "o", "p", "q", "r", "s", "t", "u", "v", "w", "x", "y", "z">>

LowerChar(c) ==
    IF c \in Range(UpperChars)
    THEN LowerChars[CHOOSE i \in DOMAIN UpperChars : UpperChars[i] = c]
    ELSE c

\* String.prototype.toLowerCase
ToLowerCase(s) == [i \in DOMAIN s |-> LowerChar(s[i])]

\* String.prototype.replace with a one-character string pattern: the FIRST
\* occurrence only is replaced
RECURSIVE ReplaceFirst(_, _, _)
ReplaceFirst(s, pat, rep) ==
    IF s = <<>> THEN <<>>
    ELSE IF Head(s) = pat THEN <<rep>> \o Tail(s)
    ELSE <<Head(s)>> \o ReplaceFirst(Tail(s), pat, rep)

\* R.replace(/\\\'/g, '\''): every backslash-apostrophe pair becomes an apostrophe
RECURSIVE UnescapeQuotes(_)
UnescapeQuotes(s) ==
    IF s = <<>> THEN <<>>
    ELSE IF Len(s) >= 2 /\ s[1] = "\\" /\ s[2] = "'"
         THEN <<"'">> \o UnescapeQuotes(SubSeq(s, 3, Len(s)))
         ELSE <<Head(s)>> \o UnescapeQuotes(Tail(s))

Ok(v) == [ok |-> TRUE, val |-> v]
Throw(e) == [ok |-> FALSE, err |-> e]

\* The object o with key k set to v / with key k deleted
SetKey(o, k, v) == [x \in DOMAIN o \cup {k} |-> IF x = k THEN v ELSE o[x]]
DelKey(o, k) == [x \in DOMAIN o \ {k} |-> o[x]]

-----------------------------------------------------------------------------
(* Query and JoinQuery.  SQL text is a sequence of tokens; "$1" is the      *)
(* positional parameter.                                                    *)

Undefined == "<undefined>"
Null == "<null>"

\* typeof of a string-valued argument that may be undefined or null
TypeOf(v) == IF v = Undefined THEN "undefined" ELSE IF v = Null THEN "object" ELSE "string"

names ==
    [en |-> [areas_vw |-> "Area",
             points_of_interest |-> "Points of interest",
             access_roads |-> "Access road",
             avalanche_paths |-> "Avalanche path",
             decision_points |-> "Decision point",
             zones |-> "Zone"],
     fr |-> [areas_vw |-> "Regions",
             points_of_interest |-> "Points d'interet",
             access_roads |-> "Routes d'acces",
             avalanche_paths |-> "Couloirs d'avalanche",
             decision_points |-> "point de decision",
             zones |-> "Zone"]]

\* columns.join(', ') as tokens
ColumnList(cols) == Join([i \in DOMAIN cols |-> <<cols[i]>>], <<",">>)

\* the switch with its default on the KML case
GeometryTransformationDefaultKml(ogr_type) ==
    IF ogr_type = "GeoJSON" THEN "ST_AsGeoJSON" ELSE "ST_AsKML"

GeometryTransformation(ogr_type) ==
    IF ogr_type = "KML" THEN "ST_AsKML" ELSE "ST_AsGeoJSON"

\* to_query with the envelope term selected before the geometry term
ToQueryEnvelopeFirst(table, cols, where_clause, xform, geometry_column, bounding_box) ==
    IF TypeOf(geometry_column) = "null"
    THEN <<"SELECT">> \o ColumnList(cols) \o <<"FROM", table, "WHERE">> \o where_clause \o <<";">>
    ELSE IF bounding_box
    THEN <<"SELECT", xform, "(", "ST_Envelope", "(", geometry_column, ")", ")", "AS", "bounding_box", ",",
           xform, "(", geometry_column, ")", "AS", "geometry", ",">>
         \o ColumnList(cols) \o <<"FROM", table, "WHERE">> \o where_clause \o <<";">>
    ELSE <<"SELECT", xform, "(", geometry_column, ")", "AS", "geometry", ",">>
         \o ColumnList(cols) \o <<"FROM", table, "WHERE">> \o where_clause \o <<";">>

ToQuery(table, cols, where_clause, xform, geometry_column, bounding_box) ==
    IF TypeOf(geometry_column) = "null"
    THEN <<"SELECT">> \o ColumnList(cols) \o <<"FROM", table, "WHERE">> \o where_clause \o <<";">>
    ELSE IF bounding_box
    THEN <<"SELECT", xform, "(", geometry_column, ")", "AS", "geometry", ",",
           xform, "(", "ST_Envelope", "(", geometry_column, ")", ")", "AS", "bounding_box", ",">>
         \o ColumnList(cols) \o <<"FROM", table, "WHERE">> \o where_clause \o <<";">>
    ELSE <<"SELECT", xform, "(", geometry_column, ")", "AS", "geometry", ",">>
         \o ColumnList(cols) \o <<"FROM", table, "WHERE">> \o where_clause \o <<";">>

\* new Query(...): bounding_box undefined is FALSE (it is only tested for truth)
Query(table, non_geometry_columns, where_clause, ogr_type, lng, bounding_box, subquery, geometry_column) ==
    LET gcol == IF TypeOf(geometry_column) = "null" THEN Null ELSE "geom"
        l == IF lng \in {Undefined, Null, ""} THEN "en" ELSE lng
        xform == GeometryTransformation(ogr_type)
    IN  IF l \notin DOMAIN names THEN Throw("TypeError")
        ELSE Ok([table |-> table,
                 non_geometry_columns |-> non_geometry_columns,
                 where_clause |-> where_clause,
                 subquery |-> subquery,
                 ogr_type |-> ogr_type,
                 geometry_column |-> gcol,
                 bounding_box |-> bounding_box,
                 lang |-> l,
                 name |-> IF table \in DOMAIN names[l] THEN names[l][table] ELSE Undefined,
                 geometry_transformation |-> xform,
                 to_query |-> ToQuery(table, non_geometry_columns, where_clause, xform, gcol, bounding_box)])

\* join_non_geoms without the table name before the first column
join_non_geoms_unqualified_head(query) ==
    Join([i \in DOMAIN query.non_geometry_columns |-> <<query.non_geometry_columns[i]>>], <<",", query.table, ".">>)

join_non_geoms(query) ==
    <<query.table, ".">>
    \o Join([i \in DOMAIN query.non_geometry_columns |-> <<query.non_geometry_columns[i]>>], <<",", query.table, ".">>)

\* a || b on string-valued fields
OrElse(a, b) == IF a \in {Undefined, Null, ""} THEN b ELSE a

JoinQuery(query1, query2, join_on, where_clause) ==
    LET geometry_column == OrElse(query1.geometry_column, query2.geometry_column)
        geometry_transformation == OrElse(query1.geometry_transformation, query2.geometry_transformation)
    IN  [table |-> query1.table,
         name |-> query1.name,
         to_query |-> <<"SELECT", geometry_transformation, "(", geometry_column, ")", "AS", "geometry", ",">>
                      \o join_non_geoms(query1) \o <<",">> \o join_non_geoms(query2)
                      \o <<"FROM", query1.table, "JOIN", query2.table, "ON">> \o join_on
                      \o <<"WHERE">> \o where_clause \o <<";">>]

\* the query lists of get_geojson and getKML
GeoJsonQueries ==
    << Query("areas_vw", <<"id", "name">>, <<"id", "=", "$1">>, "GeoJSON", "en", TRUE, Undefined, Undefined).val,
       Query("points_of_interest", <<"id", "area_id", "name", "type", "comments">>,
             <<"area_id", "=", "$1">>, "GeoJSON", Undefined, FALSE, Undefined, Undefined).val,
       Query("access_roads", <<"id", "area_id", "description">>,
             <<"area_id", "=", "$1">>, "GeoJSON", Undefined, FALSE, Undefined, Undefined).val,
       Query("avalanche_paths", <<"id", "area_id", "name">>,
             <<"area_id", "=", "$1">>, "GeoJSON", Undefined, FALSE, Undefined, Undefined).val,
       JoinQuery(
           Query("decision_points", <<"id", "name", "area_id", "comments">>,
                 <<"area_id", "=", "$1">>, "GeoJson", "en", FALSE, Undefined, Undefined).val,
           Query("decision_points_warnings", <<"warning", "type">>,
                 <<"decision_point_id", "=", "$1">>, "GeoJson", "en", FALSE, Undefined, Undefined).val,
           <<"decision_point_id", "=", "decision_points", ".", "id">>,
           <<"decision_points", ".", "area_id", "=", "$1">>),
       Query("zones", <<"id", "area_id", "class_code", "comments">>,
             <<"area_id", "=", "$1">>, "GeoJSON", "en", TRUE, Undefined, Undefined).val >>

KmlQueries(lng) ==
    << Query("areas_vw", <<"name">>, <<"id", "=", "$1">>, "KML", lng, FALSE, Undefined, Undefined).val,
       Query("points_of_interest", <<"name", "type", "comments">>,
             <<"area_id", "=", "$1">>, "KML", lng, FALSE, Undefined, Undefined).val,
       Query("access_roads", <<"description">>,
             <<"area_id", "=", "$1">>, "KML", lng, FALSE, Undefined, Undefined).val,
       Query("avalanche_paths", <<"name">>,
             <<"area_id", "=", "$1">>, "KML", lng, FALSE, Undefined, Undefined).val,
       JoinQuery(
           Query("decision_points", <<"name", "comments">>,
                 <<"area_id", "=", "$1">>, "KML", lng, FALSE, Undefined, Undefined).val,
           Query("decision_points_warnings", <<"warning", "type">>,
                 <<"decision_point_id", "=", "$1">>, Undefined, Undefined, FALSE, Undefined, Null).val,
           <<"decision_point_id", "=", "decision_points", ".", "id">>,
           <<"decision_points", ".", "area_id", "=", "$1">>),
       Query("zones", <<"class_code", "comments">>,
             <<"area_id", "=", "$1">>, "KML", lng, FALSE, Undefined, Undefined).val >>

\* the area id spliced into the SQL text instead of bound
geojsonQueryInterpolated(queryObject, area_id) ==
    [name |-> <<"get rows from", queryObject.table>>,
     text |-> [i \in DOMAIN queryObject.to_query |->
                 IF queryObject.to_query[i] = "$1" THEN area_id ELSE queryObject.to_query[i]],
     values |-> <<>>]

\* the query object geojsonQueryDatabase / KML_query_database hand to client.query
geojsonQuery(queryObject, area_id) ==
    [name |-> <<"get rows from", queryObject.table>>,
     text |-> queryObject.to_query,
     values |-> <<area_id>>]

kmlQuery(query_object, area_id) ==
    [name |-> <<"get rows from", query_object.table>>,
     text |-> query_object.to_query,
     values |-> <<area_id>>]

-----------------------------------------------------------------------------
(* String values of the rows and of the catalog, as character sequences *)

S_Concern == <<"C", "o", "n", "c", "e", "r", "n">>
S_ManagingRisk == <<"M", "a", "n", "a", "g", "i", "n", "g", " ", "r", "i", "s", "k">>
S_concern == <<"c", "o", "n", "c", "e", "r", "n">>
S_managing_risk == <<"m", "a", "n", "a", "g", "i", "n", "g", "-", "r", "i", "s", "k">>
S_cabin == <<"c", "a", "b", "i", "n">>
S_lake == <<"l", "a", "k", "e">>
S_Other == <<"O", "t", "h", "e", "r">>
S_Parking == <<"P", "a", "r", "k", "i", "n", "g">>
S_RescueCache == <<"R", "e", "s", "c", "u", "e", " ", "C", "a", "c", "h", "e">>
S_Cabin == <<"C", "a", "b", "i", "n">>
S_Destination == <<"D", "e", "s", "t", "i", "n", "a", "t", "i", "o", "n">>
S_Lake == <<"L", "a", "k", "e">>
S_Mountain == <<"M", "o", "u", "n", "t", "a", "i", "n">>
S_Hut == <<"H", "u", "t">>
S_WarmingHutEast == <<"W", "a", "r", "m", "i", "n", "g", " ", "H", "u", "t", " ", "E", "a", "s", "t">>
S_Info == <<"I", "n", "f", "o">>
S_Slide == <<"S", "l", "i", "d", "e", " ", "z", "o", "n", "e">>
S_Dont == <<"D", "o", "n", "\\", "'", "t", " ", "s", "t", "o", "p">>
S_Cornice == <<"C", "o", "r", "n", "i", "c", "e">>
S_Glacier == <<"G", "l", "a", "c", "i", "e", "r">>
S_Road == <<"S", "u", "m", "m", "e", "r", " ", "r", "o", "a", "d">>
S_Steep == <<"S", "t", "e", "e", "p">>

\* a column holding null / a property that is undefined, where a string is expected
NullStr == <<"<null>">>
UndefinedStr == <<"<undefined>">>

-----------------------------------------------------------------------------
(* Geometry payloads.  The text ST_AsGeoJSON returns is [json |-> value],    *)
(* the text ST_AsKML returns is [xml |-> tree]; JSON.parse accepts only the  *)
(* first.                                                                    *)

JSONstringify(v) == [json |-> v]

JSONparse(text) == IF "json" \in DOMAIN text THEN Ok(text.json) ELSE Throw("SyntaxError")

\* fast-xml-parser's parse: the attribute tree of an XML fragment
xml_parse_string(text) == IF "xml" \in DOMAIN text THEN text.xml ELSE <<>>

GeoPoint(x, y) == JSONstringify([type |-> "Point", coordinates |-> <<x, y>>])
GeoLine(x, y) == JSONstringify([type |-> "LineString", coordinates |-> <<<<x, y>>, <<y, x>>>>])
GeoPolygon(x, y) ==
    JSONstringify([type |-> "Polygon", coordinates |-> <<<<<<x, y>>, <<y, y>>, <<y, x>>, <<x, y>>>>>>])

\* the text of a KML coordinate tuple, "x,y"
KmlCoord(x, y) == NumToStr(x) \o <<",">> \o NumToStr(y)
KmlPoint(x, y) == [xml |-> [Point |-> [coordinates |-> KmlCoord(x, y)]]]
KmlLine(x, y) == [xml |-> [LineString |-> [coordinates |-> KmlCoord(x, y) \o <<" ">> \o KmlCoord(y, x)]]]
KmlPolygon(x, y) ==
    [xml |-> [Polygon |-> [outerBoundaryIs |-> [LinearRing |->
        [coordinates |-> KmlCoord(x, y) \o <<" ">> \o KmlCoord(y, y) \o <<" ">> \o KmlCoord(x, y)]]]]]
\* a tree whose root is none of Point, LineString, Polygon and MultiGeometry
KmlTrack(x, y) == [xml |-> [Track |-> [coordinates |-> KmlCoord(x, y) \o <<" ">> \o KmlCoord(y, x)]]]

-----------------------------------------------------------------------------
(* geojsonQueryDatabase and promiseOfGeoJson: Feature and warnify *)

\* _.mergeDeepRight({table: queryObject.table}): the row's own columns win
rowToObject(table, row) ==
    [k \in DOMAIN row \cup {"table"} |-> IF k \in DOMAIN row THEN row[k] ELSE table]

\* properties.type.toLowerCase().replace(' ', '-')
SlugAllSpaces(t) == [i \in DOMAIN t |-> IF t[i] = " " THEN "-" ELSE LowerChar(t[i])]
Slug(t) == ReplaceFirst(ToLowerCase(t), " ", "-")

\* Feature with a catch block that logs and goes on, leaving geometry unset
FeatureSwallowsParseError(geometry, feature_type, properties) ==
    LET parsed == JSONparse(geometry)
        hasBox == "bounding_box" \in DOMAIN properties
        p1 == IF hasBox THEN DelKey(properties, "bounding_box") ELSE properties
        hasType == "type" \in DOMAIN p1
        p2 == IF hasType THEN [p1 EXCEPT !["type"] = Slug(@)] ELSE p1
        p3 == SetKey(p2, "table", feature_type)
        base == IF parsed.ok THEN [type |-> "Feature", geometry |-> parsed.val, properties |-> p3]
                ELSE [type |-> "Feature", properties |-> p3]
    IN  IF hasType /\ p1["type"] \in {NullStr, UndefinedStr} THEN Throw("TypeError")
        ELSE Ok(IF hasBox THEN SetKey(base, "bounding_box", properties["bounding_box"]) ELSE base)

\* new Feature(geometry, feature_type, properties)
Feature(geometry, feature_type, properties) ==
    LET parsed == JSONparse(geometry)
        hasBox == "bounding_box" \in DOMAIN properties
        p1 == IF hasBox THEN DelKey(properties, "bounding_box") ELSE properties
        hasType == "type" \in DOMAIN p1
        p2 == IF hasType THEN [p1 EXCEPT !["type"] = Slug(@)] ELSE p1
        p3 == SetKey(p2, "table", feature_type)
        base == [type |-> "Feature", geometry |-> parsed.val, properties |-> p3]
    IN  IF ~parsed.ok THEN Throw("TypeError")
        ELSE IF hasType /\ p1["type"] \in {NullStr, UndefinedStr} THEN Throw("TypeError")
        ELSE Ok(IF hasBox THEN SetKey(base, "bounding_box", properties["bounding_box"]) ELSE base)

\* the geometry column of a row; undefined when the row has none
UndefinedText == [undefined |-> TRUE]
geojsonObjectToFeature(geometry_column, row) ==
    Feature(IF geometry_column \in DOMAIN row THEN row[geometry_column] ELSE UndefinedText,
            row["table"], row)

geojsonRowToFeature(table, row) == geojsonObjectToFeature("geometry", rowToObject(table, row))

\* rows.map(f): throws as soon as one call throws
AllOk(results) == \A i \in DOMAIN results : results[i].ok
MapThrowing(results) ==
    IF AllOk(results) THEN Ok([i \in DOMAIN results |-> results[i].val]) ELSE Throw("TypeError")

\* warnify's getGeometries: coordinates.join(', '), uniq, split(', ')
CoordinateText(feature) == Join([i \in DOMAIN feature.geometry.coordinates |-> NumToStr(feature.geometry.coordinates[i])], <<",", " ">>)
\* getGeometries without uniq
geojsonGetGeometriesNoUniq(features) ==
    LET keys == [i \in DOMAIN features |-> CoordinateText(features[i])]
    IN  [i \in DOMAIN keys |-> Split(keys[i], <<",", " ">>)]
geojsonGetGeometries(features) ==
    LET keys == Uniq([i \in DOMAIN features |-> CoordinateText(features[i])])
    IN  [i \in DOMAIN keys |-> Split(keys[i], <<",", " ">>)]

\* the property key an array turns into: Array.prototype.toString
ArrayKey(a) == Join(a, <<",">>)
NumberArrayKey(a) == ArrayKey([i \in DOMAIN a |-> NumToStr(a[i])])

EmptyGeoWarnings == [t \in {S_managing_risk, S_concern} |-> <<>>]

\* properties[g] = {warnings: {'managing-risk': [], concern: []}} for every g
geojsonInitialProperties(geometries) ==
    [k \in {ArrayKey(g) : g \in Range(geometries)} |-> [warnings |-> EmptyGeoWarnings]]

\* the forEach turn with the merge loop ahead of the push: a row whose push throws
\* has already left its properties in the accumulator
geojsonWarnifyRowMergesFirst(properties, r) ==
    LET key == NumberArrayKey(r.geometry.coordinates)
        props == r.properties
        throws == \/ "type" \notin DOMAIN props
                  \/ props["type"] \notin DOMAIN properties[key].warnings
        warning == IF "warning" \in DOMAIN props THEN props["warning"] ELSE UndefinedStr
        rest == IF throws THEN props ELSE DelKey(DelKey(props, "warning"), "type")
        pushed == IF throws THEN properties[key]
                  ELSE [properties[key] EXCEPT !.warnings[props["type"]] = Append(@, warning)]
        merged == [k \in DOMAIN pushed \cup DOMAIN rest |->
                      IF k \in DOMAIN rest THEN rest[k] ELSE pushed[k]]
    IN  [properties EXCEPT ![key] = merged]

\* the forEach turn with a merge loop that keeps a key the accumulator already has
geojsonWarnifyRowFirstWins(properties, r) ==
    LET key == NumberArrayKey(r.geometry.coordinates)
        props == r.properties
        throws == \/ key \notin DOMAIN properties
                  \/ "type" \notin DOMAIN props
                  \/ props["type"] \notin DOMAIN properties[key].warnings
        warning == IF "warning" \in DOMAIN props THEN props["warning"] ELSE UndefinedStr
        pushed == [properties[key] EXCEPT !.warnings[props["type"]] = Append(@, warning)]
        rest == DelKey(DelKey(props, "warning"), "type")
        merged == [k \in DOMAIN pushed \cup DOMAIN rest |->
                      IF k \in DOMAIN pushed THEN pushed[k] ELSE rest[k]]
    IN  IF throws THEN properties ELSE [properties EXCEPT ![key] = merged]

\* one turn of features.forEach: the try block, or nothing when it throws
geojsonWarnifyRow(properties, r) ==
    LET key == NumberArrayKey(r.geometry.coordinates)
        props == r.properties
        throws == \/ key \notin DOMAIN properties
                  \/ "type" \notin DOMAIN props
                  \/ props["type"] \notin DOMAIN properties[key].warnings
        warning == IF "warning" \in DOMAIN props THEN props["warning"] ELSE UndefinedStr
        pushed == [properties[key] EXCEPT !.warnings[props["type"]] = Append(@, warning)]
        rest == DelKey(DelKey(props, "warning"), "type")
        merged == [k \in DOMAIN pushed \cup DOMAIN rest |->
                      IF k \in DOMAIN rest THEN rest[k] ELSE pushed[k]]
    IN  IF throws THEN properties ELSE [properties EXCEPT ![key] = merged]

RECURSIVE geojsonWarnifyRows(_, _)
geojsonWarnifyRows(properties, features) ==
    IF features = <<>> THEN properties
    ELSE geojsonWarnifyRows(geojsonWarnifyRow(properties, Head(features)), Tail(features))

\* promiseOfGeoJson's warnify(features)
geojsonWarnify(features) ==
    LET geometries == geojsonGetGeometries(features)
        collected == geojsonWarnifyRows(geojsonInitialProperties(geometries), features)
        flat == [k \in DOMAIN collected |->
                    [collected[k] EXCEPT !.warnings = JSONstringify(@)]]
    IN  MapThrowing([i \in DOMAIN geometries |-> LET geom == geometries[i] IN Feature(JSONstringify([type |-> "Point",
                                               coordinates |-> [j \in DOMAIN geom |-> ParseFloat(geom[j])]]),
                                "decision_points",
                                flat[ArrayKey(geom)])])

-----------------------------------------------------------------------------
(* KML_query_database: Geometry and objectToFeature *)

\* a JavaScript string standing where an object is expected
Primitive(text) == [primitive |-> text]
IsPrimitive(obj) == "primitive" \in DOMAIN obj

\* x11Err(decomposedGeometry): logs and returns the string it logged
x11Err(l) == Primitive("(EE) [object Object]")

newPoint(point) == [Point |-> <<[coordinates |-> point.coordinates]>>]
newLineString(lineString) == [LineString |-> <<[coordinates |-> lineString.coordinates]>>]

LinearRingOf(linear_ring) == [LinearRing |-> <<[coordinates |-> linear_ring.LinearRing.coordinates]>>]

\* innerBoundaryIs is one ring (an object) or several (an array, here [rings |-> <<..>>])
newPolygon(polygon) ==
    LET outer == [outerBoundaryIs |-> <<LinearRingOf(polygon.outerBoundaryIs)>>]
    IN  IF "innerBoundaryIs" \in DOMAIN polygon
        THEN [Polygon |-> <<outer,
                 [innerBoundaryIs |->
                     IF "rings" \in DOMAIN polygon.innerBoundaryIs
                     THEN [i \in DOMAIN polygon.innerBoundaryIs.rings |-> LinearRingOf(polygon.innerBoundaryIs.rings[i])]
                     ELSE <<LinearRingOf(polygon.innerBoundaryIs)>>]>>]
        ELSE [Polygon |-> <<outer>>]

innerMultiGeometries(geometries) ==
    IF "Polygon" \in DOMAIN geometries
    THEN [i \in DOMAIN geometries.Polygon |-> newPolygon(geometries.Polygon[i])]
    ELSE Primitive("non polygon multi geometry? [object Object]")

Geometry(decomposedGeometry) ==
    IF "Point" \in DOMAIN decomposedGeometry THEN newPoint(decomposedGeometry.Point)
    ELSE IF "LineString" \in DOMAIN decomposedGeometry THEN newLineString(decomposedGeometry.LineString)
    ELSE IF "Polygon" \in DOMAIN decomposedGeometry THEN newPolygon(decomposedGeometry.Polygon)
    ELSE IF "MultiGeometry" \in DOMAIN decomposedGeometry
         THEN [MultiGeometry |-> innerMultiGeometries(decomposedGeometry.MultiGeometry)]
    ELSE x11Err(decomposedGeometry)

\* does Geometry report an error on this tree
GeometryLogs(decomposedGeometry) ==
    DOMAIN decomposedGeometry \cap {"Point", "LineString", "Polygon", "MultiGeometry"} = {}

getGeometry(row) == Geometry(xml_parse_string(row["geometry"]))

\* row => _.mergeDeepLeft({geometry: getGeometry(row)})(row)
WithGeometry(row) == SetKey(row, "geometry", getGeometry(row))

-----------------------------------------------------------------------------
(* getKML: styleUrls and newPlaceMark *)

StyleId(id) == [kind |-> "id", id |-> id]
NoStyle == [kind |-> "undefined"]

points_of_interest_styles ==
    [t \in {S_Other, S_Parking, S_RescueCache, S_Cabin, S_Destination, S_Lake, S_Mountain} |->
        CASE t = S_Other -> "point_of_interest_other_styles"
          [] t = S_Parking -> "point_of_interest_parking_styles"
          [] t = S_RescueCache -> "point_of_interest_rescue_cache_styles"
          [] t = S_Cabin -> "point_of_interest_cabin_styles"
          [] t = S_Destination -> "point_of_interest_destination_styles"
          [] t = S_Lake -> "point_of_interest_lake_styles"
          [] t = S_Mountain -> "point_of_interest_mountain_styles"]

styleUrls ==
    [zones |-> [kind |-> "array",
                items |-> <<"filler for slot 0", "zone_green_style", "zone_blue_style", "zone_black_style">>],
     areas_vw |-> StyleId("area_styles"),
     access_roads |-> StyleId("access_road_styles"),
     avalanche_paths |-> StyleId("avalanche_path_styles"),
     decision_points |-> StyleId("decision_point_styles"),
     points_of_interest |-> [kind |-> "object", map |-> points_of_interest_styles]]

\* the ids a styleUrl may refer to: the ids the Style blocks are declared with
StyleIds ==
    {"zone_green_style", "zone_blue_style", "zone_black_style", "area_styles", "access_road_styles",
     "avalanche_path_styles", "decision_point_styles"}
    \cup {points_of_interest_styles[t] : t \in DOMAIN points_of_interest_styles}

\* style_urls[table][type] for a string key; a string entry has no such property
StyleByType(entry, type) ==
    IF entry.kind = "object" /\ type \in DOMAIN entry.map THEN StyleId(entry.map[type]) ELSE NoStyle

\* style_urls[table][class_code] for a number (only zones rows carry a class_code)
StyleByClassCode(entry, class_code) ==
    IF entry.kind = "array" /\ class_code \in 0..(Len(entry.items) - 1)
    THEN StyleId(entry.items[class_code + 1])
    ELSE NoStyle

\* `#${styleUrl}`
HashRef(v) ==
    CASE v.kind = "id" -> <<"#", v.id>>
      [] v.kind = "array" -> <<"#">> \o Join([i \in DOMAIN v.items |-> <<v.items[i]>>], <<",">>)
      [] v.kind = "object" -> <<"#", "[object Object]">>
      [] OTHER -> <<"#", "undefined">>

TruthyStr(row, k) == k \in DOMAIN row /\ row[k] \notin {<<>>, NullStr, UndefinedStr}
TruthyNum(row, k) == k \in DOMAIN row /\ row[k] # 0

\* extendData(placemark, extension, data): the loop leaves the 1-based position of
\* the ExtendedData entry in `extended`, which then indexes the 0-based array
extendData(placemark, extension, data) ==
    LET found == {i \in DOMAIN placemark : ~IsPrimitive(placemark[i]) /\ "ExtendedData" \in DOMAIN placemark[i]}
        first == CHOOSE i \in found : \A j \in found : i <= j
        blocked == \E i \in DOMAIN placemark :
                       /\ IsPrimitive(placemark[i])
                       /\ (found = {} \/ i < first)
    IN  IF blocked THEN Throw("TypeError")
        ELSE IF found # {} THEN Throw("TypeError")
        ELSE Ok(Append(placemark, [ExtendedData |-> <<[extension |-> extension, data |-> data]>>]))

\* describe with unshift in place of push
describeFirst(placemark, description) == <<[description |-> description]>> \o placemark

describe(placemark, description) == Append(placemark, [description |-> description])

\* newPlaceMark(style_urls)(row)
newPlaceMark(style_urls, row) ==
    LET table == row["table"]
        entry == IF table \in DOMAIN style_urls THEN style_urls[table] ELSE NoStyle
        hasName == TruthyStr(row, "name")
        hasComments == TruthyStr(row, "comments")
        hasDescription == TruthyStr(row, "description")
        hasType == TruthyStr(row, "type")
        hasWarnings == "warnings" \in DOMAIN row
        hasClassCode == TruthyNum(row, "class_code")
        m0 == <<IF "geometry" \in DOMAIN row THEN row["geometry"] ELSE Primitive("undefined")>>
        m1 == IF hasName THEN Append(m0, [name |-> row["name"]]) ELSE m0
        m2 == IF hasComments THEN describe(m1, row["comments"]) ELSE m1
        m3 == IF hasDescription THEN describe(m2, row["description"]) ELSE m2
        m4 == IF hasType THEN describe(m3, row["type"]) ELSE m3
        s4 == IF hasType THEN StyleByType(entry, row["type"]) ELSE NoStyle
        m5 == IF hasWarnings THEN extendData(m4, "warnings", row["warnings"]) ELSE Ok(m4)
        m6 == IF ~m5.ok THEN m5
              ELSE IF hasClassCode THEN extendData(m5.val, "class_code", row["class_code"])
              ELSE m5
        s6 == IF hasClassCode THEN StyleByClassCode(entry, row["class_code"]) ELSE s4
        styleUrl == IF s6.kind = "undefined" THEN entry ELSE s6
    IN  IF (hasType \/ hasClassCode) /\ entry.kind = "undefined" THEN Throw("TypeError")
        ELSE IF ~m6.ok THEN m6
        ELSE Ok(Append(m6.val, [styleUrl |-> HashRef(styleUrl)]))

\* objectToFeature: decision-points rows stay rows, the others become placemarks
kmlRowToPlacemark(table, style_urls, row) ==
    LET withGeometry == WithGeometry(rowToObject(table, row))
    IN  IF table = "decision_points" THEN Ok(withGeometry) ELSE newPlaceMark(style_urls, withGeometry)

-----------------------------------------------------------------------------
(* getKML: dealWithStyling *)

LINE_WIDTH == 3
POI_COLOR == <<"0", "0", "0", "0", "0", "0", "f", "f">>
FULL_TRANSPARENT == <<"0", "0", "0", "0", "0", "0", "0", "0">>
DP_COLOR == <<"f", "f", "c", "1", "0", "7", "f", "f">>

\* s.split('').reverse().join('')
RECURSIVE reverse(_)
reverse(s) == IF s = <<>> THEN <<>> ELSE reverse(Tail(s)) \o <<Head(s)>>

newIcon(icon_dir, icon_number, icon) ==
    [Icon |-> <<[href |-> [dir |-> icon_dir, number |-> icon_number, icon |-> icon, ext |-> "png"]]>>]

\* the four bytes of a colour in reverse order, each byte's two digits kept in order
RECURSIVE ByteReverse(_)
ByteReverse(s) == IF Len(s) < 2 THEN s ELSE ByteReverse(SubSeq(s, 3, Len(s))) \o SubSeq(s, 1, 2)

\* re-colouring that swaps the bytes instead of the characters
re_color_bytes(s) == IF "color" \in DOMAIN s THEN [color |-> ByteReverse(s.color)] ELSE s

re_color(s) == IF "color" \in DOMAIN s THEN [color |-> reverse(s.color)] ELSE s

default_stylings(style_type) == IF style_type = "LineStyle" THEN <<[width |-> LINE_WIDTH]>> ELSE <<>>

\* newStyle(url, styles, style_type)
newStyle(url, styles, style_type) ==
    [Style |-> <<[id |-> url],
                 [style_type |-> style_type,
                  stylings |-> default_stylings(style_type) \o [i \in DOMAIN styles |-> re_color(styles[i])]]>>]

poiIcons ==
    [t \in DOMAIN points_of_interest_styles |->
        CASE t = S_Other -> "marker"
          [] t = S_Parking -> "parking"
          [] t = S_RescueCache -> "blood-bank"
          [] t = S_Cabin -> "shelter"
          [] t = S_Destination -> "attraction"
          [] t = S_Lake -> "water"
          [] t = S_Mountain -> "mountain"]

poiOrder == <<S_Other, S_Parking, S_RescueCache, S_Cabin, S_Destination, S_Lake, S_Mountain>>

\* dealWithStyling(): the styles object, flattened by flattenStyles in key order
stylesForHeader(icon_dir, icon_number) ==
    << newStyle(styleUrls.zones.items[2], <<[color |-> <<"5", "5", "f", "f", "0", "0", "8", "8">>]>>, "PolyStyle"),
       newStyle(styleUrls.zones.items[3], <<[color |-> <<"0", "0", "0", "0", "f", "f", "8", "8">>]>>, "PolyStyle"),
       newStyle(styleUrls.zones.items[4], <<[color |-> <<"0", "0", "0", "0", "0", "0", "8", "8">>]>>, "PolyStyle"),
       newStyle(styleUrls.areas_vw.id, <<[color |-> FULL_TRANSPARENT]>>, "PolyStyle"),
       newStyle(styleUrls.access_roads.id,
                <<[color |-> <<"f", "f", "f", "f", "0", "0", "f", "f">>], [gx_outerColor |-> <<"f", "f", "0", "0", "f", "f", "0", "0">>], [gx_outerWidth |-> LINE_WIDTH + 5]>>,
                "LineStyle"),
       newStyle(styleUrls.avalanche_paths.id, <<[color |-> <<"f", "f", "0", "0", "0", "0", "f", "f">>]>>, "LineStyle"),
       newStyle(styleUrls.decision_points.id,
                <<[color |-> DP_COLOR], newIcon(icon_dir, icon_number, "decision-point-icon")>>,
                "IconStyle") >>
    \o [i \in DOMAIN poiOrder |-> LET t == poiOrder[i] IN newStyle(points_of_interest_styles[t],
                                  <<[color |-> POI_COLOR], newIcon(icon_dir, icon_number, poiIcons[t])>>,
                                  "IconStyle")]

-----------------------------------------------------------------------------
(* promiseKML: warnify, newFolder, newDocument.  The fixed fragments of the  *)
(* popup HTML are single elements of the description string.                 *)

S_DecisionPoint == <<"D", "e", "c", "i", "s", "i", "o", "n", " ", "P", "o", "i", "n", "t">>

HtmlStyleBlock == "<meta http-equiv=Content-Type><style>orange-table</style>"
HtmlConcernHeader == "<table class=orange-table><tbody><tr><th class=first>Concern</th></tr>"
HtmlRiskHeader == "</tr><tr><tr><th>Managing risk</th></tr>"
HtmlTableEnd == "<tr></tbody></table>"
HtmlRowOpen(bullet) == IF bullet = "red-x" THEN "<tr><td><span class=red-x>&#x2717;</span>"
                       ELSE "<tr><td><span class=green-check>&#x2717;</span>"
HtmlRowClose == "</td></tr>"

\* toChecklist(bullet): unescape every text, wrap it in a table row, join('')
toChecklist(bullet, texts) ==
    Join([i \in DOMAIN texts |-> <<HtmlRowOpen(bullet)>> \o UnescapeQuotes(texts[i]) \o <<HtmlRowClose>>], <<>>)

warningsTable(warnings) ==
    <<HtmlConcernHeader>> \o toChecklist("red-x", warnings[S_Concern])
    \o <<HtmlRiskHeader>> \o toChecklist("green-check", warnings[S_ManagingRisk])
    \o <<HtmlTableEnd>>

htmlify(warnings) == <<HtmlStyleBlock>> \o warningsTable(warnings)

\* r.geometry.Point[0].coordinates
PointCoordinates(r) == r["geometry"].Point[1].coordinates
HasPoint(r) == ~IsPrimitive(r["geometry"]) /\ "Point" \in DOMAIN r["geometry"]

\* getGeometries without uniq
kmlGetGeometriesNoUniq(rows) == [i \in DOMAIN rows |-> PointCoordinates(rows[i])]
kmlGetGeometries(rows) == Uniq([i \in DOMAIN rows |-> PointCoordinates(rows[i])])

EmptyKmlWarnings == [t \in {S_ManagingRisk, S_Concern} |-> <<>>]

\* one turn of rows.forEach: the try block, or nothing when it throws
kmlWarnifyRow(warnings, r) ==
    LET throws == \/ ~HasPoint(r)
                  \/ PointCoordinates(r) \notin DOMAIN warnings
                  \/ "type" \notin DOMAIN r
                  \/ r["type"] \notin DOMAIN warnings[PointCoordinates(r)]
        warning == IF "warning" \in DOMAIN r THEN r["warning"] ELSE UndefinedStr
    IN  IF throws THEN warnings
        ELSE [warnings EXCEPT ![PointCoordinates(r)][r["type"]] = Append(@, warning)]

RECURSIVE kmlWarnifyRows(_, _)
kmlWarnifyRows(warnings, rows) ==
    IF rows = <<>> THEN warnings
    ELSE kmlWarnifyRows(kmlWarnifyRow(warnings, Head(rows)), Tail(rows))

\* promiseKML's warnify(wrappedRows)
kmlWarnify(wrappedRows) ==
    LET rows == wrappedRows.rows
        geometries == kmlGetGeometries(rows)
        warnings == kmlWarnifyRows([g \in Range(geometries) |-> EmptyKmlWarnings], rows)
    IN  IF \E i \in DOMAIN rows : ~HasPoint(rows[i]) THEN Throw("TypeError")
        ELSE Ok([i \in DOMAIN geometries |-> LET geom == geometries[i] IN [geometry |-> [Point |-> <<[coordinates |-> geom]>>],
                            name |-> S_DecisionPoint,
                            description |-> htmlify(warnings[geom]),
                            table |-> "decision_points"]])

newFolder(name, features) == [i \in DOMAIN features |-> [Placemark |-> features[i]]] \o <<[name |-> name]>>

newDocument(name, folders, styles) ==
    <<[kml |-> <<[xmlns |-> "http://www.opengis.net/kml/2.2"],
                 [Document |-> [i \in DOMAIN folders |-> [Folder |-> folders[i]]]
                               \o styles \o <<[name |-> name]>>],
                 [name |-> name]>>]>>

-----------------------------------------------------------------------------
(* The fan-in of promiseOfGeoJson and promiseKML.  The value a query promise *)
(* is fulfilled with is [defined |-> FALSE] for undefined.                   *)

UndefinedValue == [defined |-> FALSE]

FeatureCollection(features) == [type |-> "FeatureCollection", features |-> features]

\* the then- and catch-handlers of geojsonQueryDatabase: the catch handler returns
\* undefined, and its reject(error) comes after resolve(...) was called
geojsonQuerySettles(queryObject, outcome) ==
    IF outcome.kind = "fail" THEN UndefinedValue
    ELSE LET mapped == MapThrowing([i \in DOMAIN outcome.rows |-> geojsonRowToFeature(queryObject.table, outcome.rows[i])])
         IN  IF mapped.ok THEN [defined |-> TRUE, features |-> mapped.val] ELSE UndefinedValue

\* console.error calls of geojsonQueryDatabase and Feature for this outcome
geojsonQueryLogs(queryObject, outcome) ==
    IF outcome.kind = "fail" THEN 1
    ELSE IF geojsonQuerySettles(queryObject, outcome).defined THEN 0 ELSE 4

\* the forEach with each layer's features put ahead of the ones collected so far
RECURSIVE geojsonCollectPrepending(_, _)
geojsonCollectPrepending(values, features) ==
    IF values = <<>> THEN Ok(features)
    ELSE LET querys_features == Head(values)
         IN  IF ~querys_features.defined THEN Throw("TypeError")
             ELSE IF querys_features.features = <<>> THEN Throw("TypeError")
             ELSE LET warnified ==
                          IF querys_features.features[1].properties["table"] = "decision_points"
                          THEN geojsonWarnify(querys_features.features)
                          ELSE Ok(querys_features.features)
                  IN  IF ~warnified.ok THEN warnified
                      ELSE geojsonCollectPrepending(Tail(values), warnified.val \o features)

\* values.forEach(querys_features => ...) of promiseOfGeoJson
RECURSIVE geojsonCollect(_, _)
geojsonCollect(values, features) ==
    IF values = <<>> THEN Ok(features)
    ELSE LET querys_features == Head(values)
         IN  IF ~querys_features.defined THEN Throw("TypeError")
             ELSE IF querys_features.features = <<>> THEN Throw("TypeError")
             ELSE LET warnified ==
                          IF querys_features.features[1].properties["table"] = "decision_points"
                          THEN geojsonWarnify(querys_features.features)
                          ELSE Ok(querys_features.features)
                  IN  IF ~warnified.ok THEN warnified
                      ELSE geojsonCollect(Tail(values), features \o warnified.val)

geojsonAssemble(values) ==
    LET collected == geojsonCollect(values, <<>>)
    IN  IF collected.ok THEN Ok(FeatureCollection(collected.val)) ELSE collected

\* The objects one rowToFeature call works on.  heap holds the fetched row ("raw") and
\* the object rowToObject returns; ref names the object handed to Feature.
\* rowToObject as Object.assign(row, {table}): the fetched row itself is handed on
rowToObjectInPlace(table, row) == [ref |-> "raw", heap |-> [raw |-> rowToObject(table, row)]]

\* _.mergeDeepRight builds a new object and leaves the row as it was
rowToObjectResult(table, row) ==
    [ref |-> "merged", heap |-> [raw |-> row, merged |-> rowToObject(table, row)]]

\* what new Feature(...) leaves in its properties argument: nothing is written when
\* JSON.parse throws, only bounding_box is deleted when toLowerCase throws
FeatureWrites(geometry, feature_type, properties) ==
    LET hasBox == "bounding_box" \in DOMAIN properties
        p1 == IF hasBox THEN DelKey(properties, "bounding_box") ELSE properties
        hasType == "type" \in DOMAIN p1
    IN  IF ~JSONparse(geometry).ok THEN properties
        ELSE IF hasType /\ p1["type"] \in {NullStr, UndefinedStr} THEN p1
        ELSE SetKey(IF hasType THEN [p1 EXCEPT !["type"] = Slug(@)] ELSE p1, "table", feature_type)

\* what warnify's forEach leaves in r.properties: warning and type are deleted after
\* the push, unless the push throws
WarnifyWrites(properties) ==
    IF "type" \in DOMAIN properties /\ properties["type"] \in DOMAIN EmptyGeoWarnings
    THEN DelKey(DelKey(properties, "warning"), "type")
    ELSE properties

\* the fetched row after rowToFeature, and after warnify when it runs on its feature
geojsonRowAfter(table, row, mapped, warnified) ==
    LET r == rowToObjectResult(table, row)
        object == r.heap[r.ref]
        geometry == IF "geometry" \in DOMAIN object THEN object["geometry"] ELSE UndefinedText
        afterFeature == FeatureWrites(geometry, object["table"], object)
        after == IF ~mapped THEN object
                 ELSE IF warnified THEN WarnifyWrites(afterFeature) ELSE afterFeature
    IN  [r.heap EXCEPT ![r.ref] = after]["raw"]

\* the fetched rows after res.rows.map(rowToFeature), which stops at the first row
\* that throws, and after warnify for the decision_points layer
geojsonRowsAfter(table, rows) ==
    LET results == [i \in DOMAIN rows |-> geojsonRowToFeature(table, rows[i])]
        reached(i) == \A j \in 1..(i - 1) : results[j].ok
        warnified == AllOk(results) /\ rows # <<>> /\ table = "decision_points"
    IN  [i \in DOMAIN rows |-> geojsonRowAfter(table, rows[i], reached(i), warnified)]

\* one run of the GeoJSON assembler over the rows of one layer
geojsonRun(table, rows) ==
    geojsonAssemble(<<geojsonQuerySettles([table |-> table], [kind |-> "rows", rows |-> rows])>>)

\* the then- and catch-handlers of KML_query_database
kmlQuerySettles(query_object, style_urls, outcome) ==
    IF outcome.kind = "fail" THEN UndefinedValue
    ELSE LET mapped == MapThrowing([i \in DOMAIN outcome.rows |-> kmlRowToPlacemark(query_object.table, style_urls, outcome.rows[i])])
         IN  IF mapped.ok
             THEN [defined |-> TRUE, table |-> query_object.table, name |-> query_object.name,
                   rows |-> mapped.val]
             ELSE UndefinedValue

kmlQueryLogs(query_object, style_urls, outcome) ==
    LET unknown == IF outcome.kind = "fail" THEN 0
                   ELSE Cardinality({i \in DOMAIN outcome.rows :
                                        GeometryLogs(xml_parse_string(outcome.rows[i]["geometry"]))})
    IN  unknown + (IF kmlQuerySettles(query_object, style_urls, outcome).defined THEN 0 ELSE 1)

\* the decision_points branch: warnify, then a placemark for every aggregated row
kmlDecisionPoints(wrapped_querys_rows, style_urls) ==
    LET wrapped_warnified_rows == kmlWarnify(wrapped_querys_rows)
    IN  IF ~wrapped_warnified_rows.ok THEN wrapped_warnified_rows
        ELSE MapThrowing([i \in DOMAIN wrapped_warnified_rows.val |-> newPlaceMark(style_urls, wrapped_warnified_rows.val[i])])

\* wrapped_querys_rows.rows[0][0].name: the name of the geometry entry
AreaDocNameOfGeometry(rows) ==
    IF rows = <<>> THEN Throw("TypeError")
    ELSE Ok(IF ~IsPrimitive(rows[1][1]) /\ "name" \in DOMAIN rows[1][1] THEN rows[1][1].name ELSE UndefinedStr)

\* wrapped_querys_rows.rows[0][1].name
AreaDocName(rows) ==
    IF rows = <<>> \/ Len(rows[1]) < 2 THEN Throw("TypeError")
    ELSE Ok(IF "name" \in DOMAIN rows[1][2] THEN rows[1][2].name ELSE UndefinedStr)

\* values.forEach(wrapped_querys_rows => ...) of promiseKML
RECURSIVE kmlCollect(_, _, _, _)
kmlCollect(values, style_urls, folders, doc_name) ==
    IF values = <<>> THEN Ok([folders |-> folders, doc_name |-> doc_name])
    ELSE LET w == Head(values)
         IN  IF ~w.defined THEN Throw("TypeError")
             ELSE LET name == IF w.table = "areas_vw" THEN AreaDocName(w.rows) ELSE Ok(doc_name)
                      rows == IF w.table # "areas_vw" /\ w.table = "decision_points"
                              THEN kmlDecisionPoints(w, style_urls)
                              ELSE Ok(w.rows)
                  IN  IF ~name.ok THEN name
                      ELSE IF ~rows.ok THEN rows
                      ELSE kmlCollect(Tail(values), style_urls,
                                      Append(folders, newFolder(w.name, rows.val)), name.val)

kmlAssemble(values, style_urls, styles) ==
    LET collected == kmlCollect(values, style_urls, <<>>, <<>>)
    IN  IF collected.ok THEN Ok(newDocument(collected.val.doc_name, collected.val.folders, styles))
        ELSE collected

\* makeKMZStream: returnIfIn(v, a) || fallback
NormalizeLang(l) == IF l \in {"en", "fr"} THEN l ELSE "en"
\* iconNumber and iconDir of a request that names neither (the express route)
DefaultIconNumber == 11
DefaultIconDir == "files"

-----------------------------------------------------------------------------
(* The rows the database may answer with *)

AreaIds == {"357", "401"}
RequestLangs == {"en", "fr", "de"}

Layers == 1..6

GeoJsonSampleRows(table) ==
    CASE table = "areas_vw" ->
           <<[geometry |-> GeoPolygon(0, 2), bounding_box |-> GeoPolygon(0, 2), id |-> 357, name |-> S_Glacier]>>
      [] table = "points_of_interest" ->
           <<[geometry |-> GeoPoint(1, 2), id |-> 1, area_id |-> 357, name |-> S_Hut,
              type |-> S_Cabin, comments |-> <<>>],
             [geometry |-> GeoPoint(2, 1), id |-> 2, area_id |-> 357, name |-> S_Glacier,
              type |-> S_Lake, comments |-> S_Info]>>
      [] table = "access_roads" ->
           <<[geometry |-> GeoLine(0, 1), id |-> 1, area_id |-> 357, description |-> S_Road]>>
      [] table = "avalanche_paths" ->
           <<[geometry |-> GeoLine(1, 2), id |-> 1, area_id |-> 357, name |-> S_Slide]>>
      [] table = "decision_points" ->
           <<[geometry |-> GeoPoint(-1, 12), id |-> 1, name |-> S_Cornice, area_id |-> 357,
              comments |-> S_Info, warning |-> S_Steep, type |-> S_Concern],
             [geometry |-> GeoPoint(-1, 12), id |-> 1, name |-> S_Cornice, area_id |-> 357,
              comments |-> S_Info, warning |-> S_Dont, type |-> S_ManagingRisk]>>
      [] table = "zones" ->
           <<[geometry |-> GeoPolygon(1, 2), bounding_box |-> GeoPolygon(1, 2), id |-> 1, area_id |-> 357,
              class_code |-> 2, comments |-> <<>>]>>

\* a row whose geometry column holds KML text, as a KML-format query returns
GeoJsonMalformedRows ==
    <<[geometry |-> KmlPoint(1, 2), id |-> 1, area_id |-> 357, name |-> S_Hut,
       type |-> S_Cabin, comments |-> <<>>]>>

KmlSampleRows(table) ==
    CASE table = "areas_vw" -> <<[geometry |-> KmlPolygon(0, 2), name |-> S_Glacier]>>
      [] table = "points_of_interest" ->
           <<[geometry |-> KmlPoint(1, 2), name |-> S_Hut, type |-> S_Cabin, comments |-> <<>>],
             [geometry |-> KmlPoint(2, 1), name |-> S_Glacier, type |-> S_RescueCache, comments |-> S_Info]>>
      [] table = "access_roads" -> <<[geometry |-> KmlLine(0, 1), description |-> S_Road]>>
      [] table = "avalanche_paths" -> <<[geometry |-> KmlLine(1, 2), name |-> S_Slide]>>
      [] table = "decision_points" ->
           <<[geometry |-> KmlPoint(-1, 12), name |-> S_Cornice, comments |-> S_Info,
              warning |-> S_Steep, type |-> S_Concern],
             [geometry |-> KmlPoint(-1, 12), name |-> S_Cornice, comments |-> S_Info,
              warning |-> S_Dont, type |-> S_ManagingRisk]>>
      [] table = "zones" -> <<[geometry |-> KmlPolygon(1, 2), class_code |-> 2, comments |-> <<>>]>>

\* what client.query may do for one layer: reject, or resolve with rows
Outcomes(fmt, table) ==
    {[kind |-> "fail"], [kind |-> "rows", rows |-> <<>>]}
    \cup (IF fmt = "GeoJSON"
          THEN {[kind |-> "rows", rows |-> GeoJsonSampleRows(table)]}
               \cup (IF table = "points_of_interest"
                     THEN {[kind |-> "rows", rows |-> GeoJsonMalformedRows]} ELSE {})
          ELSE {[kind |-> "rows", rows |-> KmlSampleRows(table)]})

-----------------------------------------------------------------------------
(* The export as a state machine *)

Pending == [state |-> "pending"]
NoCall == [fn |-> "none"]
NoReturn == [state |-> "none"]

QueriesOf(fmt, lng) == IF fmt = "GeoJSON" THEN GeoJsonQueries ELSE KmlQueries(lng)

\* the query objects of one export, in the order they are handed to client.query
QueryObjects(fmt, lng, area_id) ==
    [i \in DOMAIN QueriesOf(fmt, lng) |->
        IF fmt = "GeoJSON" THEN geojsonQuery(QueriesOf(fmt, lng)[i], area_id)
        ELSE kmlQuery(QueriesOf(fmt, lng)[i], area_id)]

Init ==
    /\ format \in {"GeoJSON", "KML"}
    /\ areaId \in AreaIds
    /\ \E l \in RequestLangs : lang = IF format = "KML" THEN NormalizeLang(l) ELSE "en"
    /\ pc = "start"
    /\ sent = <<>>
    /\ clientQuery = [i \in Layers |-> [state |-> "none"]]
    /\ queryPromise = [i \in Layers |-> [state |-> "none"]]
    /\ docPromise = Pending
    /\ kmzPromise = Pending
    /\ delivered = <<>>
    /\ errLog = 0
    /\ call = NoCall
    /\ ret = NoReturn

\* promiseOfGeoJson / promiseKML: queries.map(query => ...QueryDatabase(query, ...))
IssueQueries ==
    /\ pc = "start"
    /\ sent' = QueryObjects(format, lang, areaId)
    /\ clientQuery' = [i \in Layers |-> Pending]
    /\ queryPromise' = [i \in Layers |-> Pending]
    /\ pc' = "querying"
    /\ UNCHANGED <<format, areaId, lang, docPromise, kmzPromise, delivered, errLog, call, ret>>

\* client.query of layer i settles and the handlers chained on it run
QueryCompletes(i) ==
    /\ pc = "querying"
    /\ queryPromise[i].state = "pending"
    /\ LET q == QueriesOf(format, lang)[i]
       IN  \E outcome \in Outcomes(format, q.table) :
               /\ clientQuery' = [clientQuery EXCEPT ![i] =
                                     IF outcome.kind = "fail" THEN [state |-> "rejected"]
                                     ELSE [state |-> "resolved", rows |-> outcome.rows]]
               /\ queryPromise' =
                      [queryPromise EXCEPT ![i] =
                          [state |-> "fulfilled",
                           value |-> IF format = "GeoJSON" THEN geojsonQuerySettles(q, outcome)
                                     ELSE kmlQuerySettles(q, styleUrls, outcome)]]
               /\ errLog' = errLog + (IF format = "GeoJSON" THEN geojsonQueryLogs(q, outcome)
                                      ELSE kmlQueryLogs(q, styleUrls, outcome))
    /\ UNCHANGED <<format, areaId, lang, pc, sent, docPromise, kmzPromise, delivered, call, ret>>

AllSettled == \A i \in Layers : queryPromise[i].state = "fulfilled"
Values == [i \in Layers |-> queryPromise[i].value]

\* Promise.all(query_promises).then(...) of promiseOfGeoJson: a throw in the handler
\* rejects only the promise then() returned, which nothing observes
AssembleGeoJson ==
    /\ pc = "querying" /\ format = "GeoJSON" /\ AllSettled
    /\ LET assembled == geojsonAssemble(Values)
       IN  docPromise' = IF assembled.ok THEN [state |-> "resolved", value |-> assembled.val]
                         ELSE docPromise
    /\ pc' = "assembled"
    /\ UNCHANGED <<format, areaId, lang, sent, clientQuery, queryPromise, kmzPromise, delivered, errLog, call, ret>>

\* Promise.all(queryPromises).then(...).catch(reject) of promiseKML
AssembleKML ==
    /\ pc = "querying" /\ format = "KML" /\ AllSettled
    /\ LET assembled == kmlAssemble(Values, styleUrls, stylesForHeader(DefaultIconDir, DefaultIconNumber))
       IN  docPromise' = IF assembled.ok THEN [state |-> "resolved", value |-> assembled.val]
                         ELSE [state |-> "rejected", reason |-> assembled.err]
    /\ pc' = "assembled"
    /\ UNCHANGED <<format, areaId, lang, sent, clientQuery, queryPromise, kmzPromise, delivered, errLog, call, ret>>

\* get_geojson: promiseOfGeoJson(...).then(geoJsonDoc => ...)
GeoJsonThen ==
    /\ pc = "assembled" /\ format = "GeoJSON" /\ docPromise.state = "resolved"
    /\ delivered' = Append(delivered, docPromise.value)
    /\ pc' = "done"
    /\ UNCHANGED <<format, areaId, lang, sent, clientQuery, queryPromise, docPromise, kmzPromise, errLog, call, ret>>

\* makeKMZStream: getKML(...).then(kml => ...), with no handler for a rejection
KmzThen ==
    /\ pc = "assembled" /\ format = "KML" /\ docPromise.state = "resolved"
    /\ delivered' = Append(delivered, docPromise.value)
    /\ kmzPromise' = [state |-> "resolved"]
    /\ pc' = "done"
    /\ UNCHANGED <<format, areaId, lang, sent, clientQuery, queryPromise, docPromise, errLog, call, ret>>

Next ==
    \/ IssueQueries
    \/ \E i \in Layers : QueryCompletes(i)
    \/ AssembleGeoJson
    \/ AssembleKML
    \/ GeoJsonThen
    \/ KmzThen

Spec == Init /\ [][Next]_vars

\* no handler is left to run
Quiescent == pc = "done" \/ (pc = "assembled" /\ docPromise.state # "resolved")

-----------------------------------------------------------------------------
(* Unit runs: one function of the pipeline applied to one input *)

MaxRows == 2
MaxClassCode == 4

DecisionPointCoordinates == {<<1, 2>>, <<-1, 12>>}
WarningTypes == {S_Concern, S_ManagingRisk, S_Other, S_concern}
WarningTexts == {S_Steep, S_Dont}

\* a joined decision_points / decision_points_warnings row, in either encoding
GeoJsonDecisionPointRow(c, t, w) ==
    [geometry |-> GeoPoint(c[1], c[2]), id |-> 1, name |-> S_Cornice, area_id |-> 357,
     comments |-> S_Info, warning |-> w, type |-> t]
KmlDecisionPointRow(c, t, w) ==
    [geometry |-> KmlPoint(c[1], c[2]), name |-> S_Cornice, comments |-> S_Info, warning |-> w, type |-> t]

RowShapes == DecisionPointCoordinates \X WarningTypes \X WarningTexts

RECURSIVE SeqsUpTo(_, _)
SeqsUpTo(S, n) ==
    IF n = 0 THEN {<<>>}
    ELSE LET shorter == SeqsUpTo(S, n - 1)
         IN  shorter \cup {Append(q, x) : q \in {p \in shorter : Len(p) = n - 1}, x \in S}

RowShapeLists == SeqsUpTo(RowShapes, MaxRows) \ {<<>>}

\* two joined rows of decision points that differ in name and comments
RenamedRowPairs ==
    {<<GeoJsonDecisionPointRow(c1, t1, S_Steep),
       [GeoJsonDecisionPointRow(c2, t2, S_Dont) EXCEPT !.name = S_Slide, !.comments = S_Road, !.id = 2]>> :
        c1 \in DecisionPointCoordinates, c2 \in DecisionPointCoordinates,
        t1 \in {S_Concern, S_Other}, t2 \in {S_Concern, S_Other}}

PoiTypes == DOMAIN points_of_interest_styles \cup {S_Hut, S_WarmingHutEast, S_ManagingRisk}

FeatureCalls ==
    {[fn |-> "Feature", table |-> "points_of_interest",
      row |-> [geometry |-> GeoPoint(1, 2), id |-> 1, area_id |-> 357, name |-> S_Hut,
               type |-> t, comments |-> c]] : t \in PoiTypes \cup {NullStr}, c \in {<<>>, S_Info}}
    \cup {[fn |-> "Feature", table |-> t, row |-> GeoJsonSampleRows(t)[1]] :
             t \in {"areas_vw", "access_roads", "avalanche_paths", "decision_points", "zones"}}
    \cup {[fn |-> "Feature", table |-> "points_of_interest", row |-> GeoJsonMalformedRows[1]]}

PlacemarkCalls ==
    {[fn |-> "newPlaceMark", table |-> "points_of_interest",
      row |-> [geometry |-> KmlPoint(1, 2), name |-> n, type |-> t, comments |-> c]] :
         t \in PoiTypes \cup {NullStr}, n \in {<<>>, S_Hut}, c \in {<<>>, S_Info}}
    \cup {[fn |-> "newPlaceMark", table |-> "zones",
           row |-> [geometry |-> KmlPolygon(1, 2), class_code |-> k, comments |-> c]] :
              k \in 0..MaxClassCode, c \in {<<>>, S_Info}}
    \cup {[fn |-> "newPlaceMark", table |-> t, row |-> KmlSampleRows(t)[1]] :
             t \in {"areas_vw", "access_roads", "avalanche_paths"}}
    \cup {[fn |-> "newPlaceMark", table |-> "access_roads",
           row |-> [geometry |-> KmlTrack(0, 1), description |-> S_Road]],
          [fn |-> "newPlaceMark", table |-> "zones",
           row |-> [geometry |-> KmlTrack(1, 2), class_code |-> 2, comments |-> <<>>]]}
    \cup {[fn |-> "newPlaceMark", table |-> "zones",
           row |-> [geometry |-> KmlPolygon(1, 2), class_code |-> k, comments |-> <<>>,
                    warnings |-> S_Steep]] : k \in {0, 2}}

\* the tables the exports query, with the columns getKML selects from each
QueryTables ==
    {"areas_vw", "points_of_interest", "access_roads", "avalanche_paths", "decision_points",
     "zones", "decision_points_warnings"}
QueryColumns(table) ==
    CASE table = "areas_vw" -> <<"name">>
      [] table = "points_of_interest" -> <<"name", "type", "comments">>
      [] table = "access_roads" -> <<"description">>
      [] table = "avalanche_paths" -> <<"name">>
      [] table = "decision_points" -> <<"name", "comments">>
      [] table = "zones" -> <<"class_code", "comments">>
      [] table = "decision_points_warnings" -> <<"warning", "type">>
QueryWhere(table) ==
    CASE table = "areas_vw" -> <<"id", "=", "$1">>
      [] table = "decision_points_warnings" -> <<"decision_point_id", "=", "$1">>
      [] OTHER -> <<"area_id", "=", "$1">>

OgrTypes == {"KML", "GeoJSON", "GeoJson", "kml", Undefined}
QueryLangs == {"en", "fr", "de", Undefined}

\* new Query(...) calls; an omitted bounding_box is FALSE
QueryCalls ==
    {[fn |-> "Query", table |-> tb, non_geometry_columns |-> QueryColumns(tb),
      where_clause |-> QueryWhere(tb), ogr_type |-> o, lang |-> l, bounding_box |-> b,
      geometry_column |-> g] :
        tb \in QueryTables, o \in OgrTypes, l \in QueryLangs, b \in BOOLEAN, g \in {Undefined, Null}}

\* new JoinQuery(new Query(primary ...), new Query('decision_points_warnings' ...), ...)
JoinQueryCalls ==
    {[fn |-> "JoinQuery",
      query1 |-> Query(tb, QueryColumns(tb), QueryWhere(tb), o1, l, b, Undefined, Undefined).val,
      query2 |-> Query("decision_points_warnings", QueryColumns("decision_points_warnings"),
                       QueryWhere("decision_points_warnings"), o2, l2, FALSE, Undefined, g).val,
      join_on |-> <<"decision_point_id", "=", tb, ".", "id">>,
      where_clause |-> <<tb, ".", "area_id", "=", "$1">>] :
        tb \in {"decision_points", "zones"}, o1 \in {"KML", "GeoJSON", "GeoJson"}, l \in {"en", "fr"},
        b \in BOOLEAN, o2 \in {"KML", "GeoJson", Undefined}, l2 \in {"en", Undefined},
        g \in {Undefined, Null}}

\* the colours of the styles object of dealWithStyling, and two more strings
CatalogColours ==
    {<<"5", "5", "f", "f", "0", "0", "8", "8">>, <<"0", "0", "0", "0", "f", "f", "8", "8">>,
     <<"0", "0", "0", "0", "0", "0", "8", "8">>, FULL_TRANSPARENT,
     <<"f", "f", "f", "f", "0", "0", "f", "f">>, <<"f", "f", "0", "0", "0", "0", "f", "f">>,
     DP_COLOR, POI_COLOR}
StoredColours ==
    CatalogColours \cup {<<"a", "a", "b", "b", "c", "c", "d", "d">>, <<"0", "1", "2", "3", "4", "5", "6", "7">>}
StyleTypes == {"LineStyle", "PolyStyle", "IconStyle"}

\* newStyle(url, [{color}, ...], style_type) calls, with and without an icon entry
NewStyleCalls ==
    {[fn |-> "newStyle", url |-> "decision_point_styles", style_type |-> st,
      styles |-> <<[color |-> c]>> \o extra] :
        c \in StoredColours, st \in StyleTypes,
        extra \in {<<>>, <<newIcon(DefaultIconDir, DefaultIconNumber, "decision-point-icon")>>}}

\* the rows one layer's query returned, to be assembled twice
AssemblerCalls ==
    {[fn |-> "assemble", table |-> c.table, rows |-> <<c.row>>] : c \in FeatureCalls}
    \cup {[fn |-> "assemble", table |-> "decision_points",
           rows |-> [i \in DOMAIN l |-> GeoJsonDecisionPointRow(l[i][1], l[i][2], l[i][3])]] :
              l \in RowShapeLists}

UnitCalls ==
    FeatureCalls
    \cup AssemblerCalls
    \cup NewStyleCalls
    \cup PlacemarkCalls
    \cup QueryCalls
    \cup JoinQueryCalls
    \cup {[fn |-> "geojsonWarnify",
           rows |-> [i \in DOMAIN l |-> GeoJsonDecisionPointRow(l[i][1], l[i][2], l[i][3])]] : l \in RowShapeLists}
    \cup {[fn |-> "geojsonWarnify", rows |-> rows] : rows \in RenamedRowPairs}
    \cup {[fn |-> "kmlWarnify",
           rows |-> [i \in DOMAIN l |-> KmlDecisionPointRow(l[i][1], l[i][2], l[i][3])]] : l \in RowShapeLists}

Returned(result) == IF result.ok THEN [state |-> "returned", value |-> result.val]
                    ELSE [state |-> "threw", error |-> result.err]

UnitInit ==
    /\ call \in UnitCalls
    /\ ret = NoReturn
    /\ pc = "unit"
    /\ format = "none" /\ areaId = "357" /\ lang = "en"
    /\ sent = <<>> /\ clientQuery = <<>> /\ queryPromise = <<>>
    /\ docPromise = Pending /\ kmzPromise = Pending
    /\ delivered = <<>> /\ errLog = 0

UnitUnchanged ==
    UNCHANGED <<format, areaId, lang, pc, sent, clientQuery, queryPromise, docPromise, kmzPromise,
                delivered, errLog, call>>

\* res.rows.map(rowToFeature) on one row
ApplyFeature ==
    /\ pc = "unit" /\ call.fn = "Feature" /\ ret.state = "none"
    /\ ret' = Returned(geojsonRowToFeature(call.table, call.row))
    /\ UnitUnchanged

\* the decision_points rows of promiseOfGeoJson: rowToFeature on every row, then warnify
FeaturesOfRows(rows) == MapThrowing([i \in DOMAIN rows |-> geojsonRowToFeature("decision_points", rows[i])])

ApplyGeojsonWarnify ==
    /\ pc = "unit" /\ call.fn = "geojsonWarnify" /\ ret.state = "none"
    /\ LET features == FeaturesOfRows(call.rows)
       IN  ret' = Returned(IF features.ok THEN geojsonWarnify(features.val) ELSE features)
    /\ UnitUnchanged

\* the decision_points rows of promiseKML: rowToPlacemark on every row, warnify, newPlacemark
ApplyKmlWarnify ==
    /\ pc = "unit" /\ call.fn = "kmlWarnify" /\ ret.state = "none"
    /\ LET wrapped == kmlQuerySettles(KmlQueries("en")[5], styleUrls, [kind |-> "rows", rows |-> call.rows])
       IN  ret' = Returned(IF wrapped.defined THEN kmlDecisionPoints(wrapped, styleUrls)
                           ELSE Throw("TypeError"))
    /\ UnitUnchanged

\* res.rows.map(rowToPlacemark) on one row of a layer other than decision_points
ApplyNewPlaceMark ==
    /\ pc = "unit" /\ call.fn = "newPlaceMark" /\ ret.state = "none"
    /\ ret' = Returned(kmlRowToPlacemark(call.table, styleUrls, call.row))
    /\ UnitUnchanged

\* new Query(...)
ApplyQuery ==
    /\ pc = "unit" /\ call.fn = "Query" /\ ret.state = "none"
    /\ ret' = Returned(Query(call.table, call.non_geometry_columns, call.where_clause, call.ogr_type,
                             call.lang, call.bounding_box, Undefined, call.geometry_column))
    /\ UnitUnchanged

\* new JoinQuery(query1, query2, join_on, where_clause)
ApplyJoinQuery ==
    /\ pc = "unit" /\ call.fn = "JoinQuery" /\ ret.state = "none"
    /\ ret' = Returned(Ok(JoinQuery(call.query1, call.query2, call.join_on, call.where_clause)))
    /\ UnitUnchanged

\* newStyle(url, styles, style_type)
ApplyNewStyle ==
    /\ pc = "unit" /\ call.fn = "newStyle" /\ ret.state = "none"
    /\ ret' = Returned(Ok(newStyle(call.url, call.styles, call.style_type)))
    /\ UnitUnchanged

\* a first run of the assembler over the fetched rows
ApplyAssemble ==
    /\ pc = "unit" /\ call.fn = "assemble" /\ ret.state = "none"
    /\ ret' = [state |-> "first", run |-> Returned(geojsonRun(call.table, call.rows)),
               rows |-> geojsonRowsAfter(call.table, call.rows)]
    /\ UnitUnchanged

\* a second run over the same row objects, as the first run left them
ApplyAssembleAgain ==
    /\ pc = "unit" /\ call.fn = "assemble" /\ ret.state = "first"
    /\ ret' = [state |-> "again", first |-> ret.run,
               run |-> Returned(geojsonRun(call.table, ret.rows)),
               rows |-> geojsonRowsAfter(call.table, ret.rows)]
    /\ UnitUnchanged

UnitNext ==
    \/ ApplyFeature
    \/ ApplyAssemble
    \/ ApplyAssembleAgain
    \/ ApplyNewStyle
    \/ ApplyGeojsonWarnify
    \/ ApplyKmlWarnify
    \/ ApplyNewPlaceMark
    \/ ApplyQuery
    \/ ApplyJoinQuery

UnitSpec == UnitInit /\ [][UnitNext]_vars

-----------------------------------------------------------------------------
(* Properties *)

Failed(i) == clientQuery[i].state = "rejected"

\* C1: when the query of a layer fails, the promise of promiseOfGeoJson, respectively
\* promiseKML, ends rejected and no document is delivered to the caller.
C1_QueryFailureRejects ==
    (Quiescent /\ \E i \in Layers : Failed(i))
        => (docPromise.state = "rejected" /\ delivered = <<>>)

\* C2: whatever the layers answer, once every handler has run the promise the caller
\* holds (promiseOfGeoJson's, makeKMZStream's) is settled, never still pending.
C2_ExportSettles ==
    Quiescent =>
        /\ (format = "GeoJSON" => docPromise.state # "pending")
        /\ (format = "KML" => kmzPromise.state # "pending")

ZeroRowScenario ==
    /\ format = "GeoJSON"
    /\ \A i \in Layers : clientQuery[i].state = "resolved"
    /\ clientQuery[1].rows = GeoJsonSampleRows("areas_vw")
    /\ clientQuery[2].rows = GeoJsonSampleRows("points_of_interest")
    /\ \A i \in 3..6 : clientQuery[i].rows = <<>>

\* C3: one area row, the Cabin and Lake points of interest and zero rows for every
\* other layer resolve to a FeatureCollection of exactly 3 features, the types being
\* cabin and lake and the area feature carrying its bounding box.
C3_ZeroRowLayersDeliver ==
    (Quiescent /\ ZeroRowScenario) =>
        /\ docPromise.state = "resolved"
        /\ Len(docPromise.value.features) = 3
        /\ "bounding_box" \in DOMAIN docPromise.value.features[1]
        /\ docPromise.value.features[2].properties["type"] = S_cabin
        /\ docPromise.value.features[3].properties["type"] = S_lake

\* C4: the SQL text handed to client.query is the same for every area id and holds no
\* area id; the area id travels only as the parameter list [areaId].
C4_AreaIdBoundPositionally ==
    \A i \in DOMAIN sent :
        /\ sent[i].values = <<areaId>>
        /\ \A b \in AreaIds :
              /\ b \notin Range(sent[i].text)
              /\ QueryObjects(format, lang, b)[i].text = sent[i].text
              /\ QueryObjects(format, lang, b)[i].values = <<b>>

C4_Witness ==
    /\ Len(sent) = 6 /\ areaId = "401"
    /\ "$1" \in Range(sent[5].text)

\* the features warnify was given, and the warning texts of those at coordinates c
\* whose (slugged) type is k, in row order
GivenFeatures == FeaturesOfRows(call.rows).val
TextsAt(features, c, k) ==
    LET given == SelectSeq(features, LAMBDA f : f.geometry.coordinates = c /\ f.properties["type"] = k)
    IN  [i \in DOMAIN given |-> given[i].properties["warning"]]
CoordinatePairs(features) == {features[i].geometry.coordinates : i \in DOMAIN features}

\* C5: the GeoJSON warnify emits one feature per distinct coordinate pair, and the
\* concern and managing-risk lists of a pair hold exactly the warnings of the rows at
\* that pair with that category, in row order.
C5_GeoJsonWarnifyGroups ==
    (call.fn = "geojsonWarnify" /\ ret.state # "none") =>
        /\ ret.state = "returned"
        /\ Len(ret.value) = Cardinality(CoordinatePairs(GivenFeatures))
        /\ CoordinatePairs(ret.value) = CoordinatePairs(GivenFeatures)
        /\ \A i \in DOMAIN ret.value :
              LET lists == JSONparse(ret.value[i].properties["warnings"]).val
              IN  /\ DOMAIN lists = {S_concern, S_managing_risk}
                  /\ \A k \in DOMAIN lists :
                        lists[k] = TextsAt(GivenFeatures, ret.value[i].geometry.coordinates, k)

C5_Witness ==
    /\ call.fn = "geojsonWarnify" /\ ret.state = "returned"
    /\ Len(call.rows) = 2 /\ Len(ret.value) = 1
    /\ LET lists == JSONparse(ret.value[1].properties["warnings"]).val
       IN  Len(lists[S_concern]) = 1 /\ Len(lists[S_managing_risk]) = 1

\* the row has a type (not NULL) / the style a row should get: its category's
HasType(row) == "type" \in DOMAIN row /\ row["type"] # NullStr
CategoryStyle(c) ==
    LET entry == styleUrls[c.table]
    IN  IF HasType(c.row) /\ entry.kind = "object" /\ c.row["type"] \in DOMAIN entry.map
        THEN <<entry.map[c.row["type"]]>>
        ELSE IF "class_code" \in DOMAIN c.row /\ entry.kind = "array" /\ c.row["class_code"] \in 1..3
        THEN <<entry.items[c.row["class_code"] + 1]>>
        ELSE <<>>
LookupMiss(c) == CategoryStyle(c) = <<>> /\ styleUrls[c.table].kind # "id"
StyleUrlOf(placemark) == placemark[Len(placemark)].styleUrl

\* C6: when neither the categorical lookup nor the table's entry gives a style id,
\* newPlaceMark raises; a placemark it returns refers to a style id.
C6_StyleMissRaises ==
    (call.fn = "newPlaceMark" /\ ret.state # "none") =>
        /\ LookupMiss(call) => ret.state = "threw"
        /\ ret.state = "returned" => \E id \in StyleIds : StyleUrlOf(ret.value) = <<"#", id>>

\* C7: a row with a catalog type or a class_code 1..3 gets that category's style id,
\* and the table-level entry is used only for a row with neither type nor class_code.
C7_CategoryStyleFirst ==
    (call.fn = "newPlaceMark" /\ ret.state = "returned") =>
        /\ CategoryStyle(call) # <<>> => StyleUrlOf(ret.value) = <<"#", CategoryStyle(call)[1]>>
        /\ StyleUrlOf(ret.value) = HashRef(styleUrls[call.table])
              => (~HasType(call.row) /\ "class_code" \notin DOMAIN call.row)

\* the description of a placemark, and whether text occurs in it after the header
DescriptionOf(placemark) ==
    placemark[CHOOSE i \in DOMAIN placemark : "description" \in DOMAIN placemark[i]].description
ContainsAfter(html, text, header) ==
    \E h \in DOMAIN html :
        /\ html[h] = header
        /\ \E i \in (h + 1)..(Len(html) - Len(text) + 1) : SubSeq(html, i, i + Len(text) - 1) = text
KmlCoordinates(rows) == {rows[i]["geometry"].xml.Point.coordinates : i \in DOMAIN rows}
KmlTextsAt(rows, c, t) ==
    {rows[i]["warning"] : i \in {j \in DOMAIN rows :
                                    rows[j]["geometry"].xml.Point.coordinates = c /\ rows[j]["type"] = t}}
PlacemarkCoordinates(placemark) == placemark[1].Point[1].coordinates

\* one placemark per distinct coordinates, each text (unescaped or as given) under its header
KmlGroups(unescaped) ==
    /\ ret.state = "returned"
    /\ Len(ret.value) = Cardinality(KmlCoordinates(call.rows))
    /\ {PlacemarkCoordinates(ret.value[i]) : i \in DOMAIN ret.value} = KmlCoordinates(call.rows)
    /\ \A i \in DOMAIN ret.value :
          LET c == PlacemarkCoordinates(ret.value[i])
              html == DescriptionOf(ret.value[i])
          IN  /\ \A w \in KmlTextsAt(call.rows, c, S_Concern) :
                    ContainsAfter(html, (IF unescaped THEN UnescapeQuotes(w) ELSE w), HtmlConcernHeader)
              /\ \A w \in KmlTextsAt(call.rows, c, S_ManagingRisk) :
                    ContainsAfter(html, (IF unescaped THEN UnescapeQuotes(w) ELSE w), HtmlRiskHeader)

\* C8, as claimed: rows sharing Point coordinates yield exactly one placemark, whose
\* description holds every Concern text after the Concern header and every Managing
\* risk text after the Managing risk header.
C8_KmlWarnifyVerbatim ==
    (call.fn = "kmlWarnify" /\ ret.state # "none") => KmlGroups(FALSE)

\* C8, amended: the same, each text appearing with every backslash-apostrophe pair
\* replaced by an apostrophe.
C8_KmlWarnifyGroups ==
    (call.fn = "kmlWarnify" /\ ret.state # "none") => KmlGroups(TRUE)

C8_Witness ==
    /\ call.fn = "kmlWarnify" /\ ret.state = "returned"
    /\ Len(call.rows) = 2 /\ Len(ret.value) = 1
    /\ call.rows[1]["type"] = S_Concern /\ call.rows[2]["type"] = S_ManagingRisk
    /\ call.rows[2]["warning"] = S_Dont

\* C9: Feature turns a present type into its slug: lowercase, every space a hyphen.
C9_TypeSlugged ==
    (call.fn = "Feature" /\ ret.state = "returned" /\ "type" \in DOMAIN call.row) =>
        ret.value.properties["type"] = SlugAllSpaces(call.row["type"])

\* C10: the properties of a Feature are the row's columns other than geometry and
\* bounding_box, plus the table tag; there is no geometry key.
C10_GeometryRemoved ==
    (call.fn = "Feature" /\ ret.state = "returned") =>
        /\ "geometry" \notin DOMAIN ret.value.properties
        /\ DOMAIN ret.value.properties = (DOMAIN call.row \ {"geometry", "bounding_box"}) \cup {"table"}

\* C11: a row with a bounding_box column gives a Feature with a top-level boundingBox
\* field holding it and no bounding_box key among its properties; a row without the
\* column gives a Feature with no such top-level field.
C11_BoundingBoxHoisted ==
    (call.fn = "Feature" /\ ret.state = "returned") =>
        IF "bounding_box" \in DOMAIN call.row
        THEN /\ "boundingBox" \in DOMAIN ret.value
             /\ ret.value["boundingBox"] = call.row["bounding_box"]
             /\ "bounding_box" \notin DOMAIN ret.value.properties
        ELSE "boundingBox" \notin DOMAIN ret.value

\* C12: Feature raises on a geometry payload that is not JSON text; every Feature it
\* returns carries the parsed payload of its row as geometry.
C12_NonJsonGeometryRaises ==
    (call.fn = "Feature" /\ ret.state # "none") =>
        IF "json" \in DOMAIN call.row["geometry"]
        THEN ret.state = "returned" =>
                 "geometry" \in DOMAIN ret.value /\ ret.value.geometry = call.row["geometry"].json
        ELSE ret.state = "threw"

C12_Witness ==
    call.fn = "Feature" /\ "xml" \in DOMAIN call.row["geometry"] /\ ret.state = "threw"

\* the tokens between SELECT and FROM, and from FROM on
IndexOf(s, tok) == CHOOSE i \in DOMAIN s : s[i] = tok /\ \A j \in 1..(i - 1) : s[j] # tok
SelectList(sql) == SubSeq(sql, 2, IndexOf(sql, "FROM") - 1)
FromClause(sql) == SubSeq(sql, IndexOf(sql, "FROM"), Len(sql))
\* a column list as tokens, each column qualified by q when q is not empty
Columns(q, cols) ==
    IF cols = <<>> THEN <<>>
    ELSE [i \in 1..((Len(q) + 2) * Len(cols) - 1) |->
            LET k == (i - 1) % (Len(q) + 2)
            IN  IF k < Len(q) THEN q[k + 1]
                ELSE IF k = Len(q) THEN cols[((i - 1) \div (Len(q) + 2)) + 1]
                ELSE ","]
GeometryTerm(xform, geom) == <<xform, "(", geom, ")", "AS", "geometry">>
EnvelopeTerm(xform, geom) == <<xform, "(", "ST_Envelope", "(", geom, ")", ")", "AS", "bounding_box">>
Occurrences(s, tok) == Cardinality({i \in DOMAIN s : s[i] = tok})

\* C13: a compiled query with a geometry column selects, in this order, the geometry
\* term, the envelope term and the columns when bounding_box is true, and the geometry
\* term and the columns, with no bounding_box term, when it is false.
C13_BoundingBoxSelectList ==
    (call.fn = "Query" /\ ret.state = "returned" /\ ret.value.geometry_column # Null) =>
        LET q == ret.value
            x == q.geometry_transformation
        IN  /\ x \in {"ST_AsKML", "ST_AsGeoJSON"}
            /\ SelectList(q.to_query) =
                  IF call.bounding_box
                  THEN GeometryTerm(x, q.geometry_column) \o <<",">>
                       \o EnvelopeTerm(x, q.geometry_column) \o <<",">>
                       \o Columns(<<>>, call.non_geometry_columns)
                  ELSE GeometryTerm(x, q.geometry_column) \o <<",">>
                       \o Columns(<<>>, call.non_geometry_columns)
            /\ Occurrences(q.to_query, "bounding_box") = IF call.bounding_box THEN 1 ELSE 0
            /\ Occurrences(q.to_query, x) = IF call.bounding_box THEN 2 ELSE 1

C13_Witness ==
    /\ call.fn = "Query" /\ ret.state = "returned" /\ call.bounding_box
    /\ Occurrences(ret.value.to_query, "ST_Envelope") = 1

\* C14: a Query constructed with null as geometry_column compiles to
\* SELECT <columns> FROM <table> WHERE <filter>, with no geometry-transform term.
C14_NoGeometryColumn ==
    (call.fn = "Query" /\ ret.state = "returned" /\ call.geometry_column = Null) =>
        /\ ret.value.to_query =
              <<"SELECT">> \o Columns(<<>>, call.non_geometry_columns)
              \o <<"FROM", call.table, "WHERE">> \o call.where_clause \o <<";">>
        /\ Occurrences(ret.value.to_query, "ST_AsKML") = 0
        /\ Occurrences(ret.value.to_query, "ST_AsGeoJSON") = 0

\* the locale a Query selects: lang || 'en'
SelectedLocale(l) == IF l = Undefined THEN "en" ELSE l
SupportedLocales == {"en", "fr"}

\* C15: the transform of a compiled query is ST_AsKML exactly when ogr_type is 'KML'
\* and ST_AsGeoJSON for every other value; no ogr_type value makes construction fail.
C15_TransformByFormat ==
    (call.fn = "Query" /\ ret.state # "none") =>
        /\ ret.state = "threw" => SelectedLocale(call.lang) \notin SupportedLocales
        /\ ret.state = "returned" =>
              /\ ret.value.geometry_transformation =
                    (IF call.ogr_type = "KML" THEN "ST_AsKML" ELSE "ST_AsGeoJSON")
              /\ ret.value.geometry_column # Null =>
                    /\ (Occurrences(ret.value.to_query, "ST_AsKML") > 0) <=> (call.ogr_type = "KML")
                    /\ (Occurrences(ret.value.to_query, "ST_AsGeoJSON") > 0) <=> (call.ogr_type # "KML")

C15_Witness ==
    /\ call.fn = "Query" /\ call.ogr_type = "GeoJson" /\ ret.state = "returned"
    /\ ret.value.geometry_transformation = "ST_AsGeoJSON"

\* a || b of the claim: the primary layer's value when it defines one
Defines(v) == v \notin {Undefined, Null, ""}

\* C16: JoinQuery compiles to one statement: the geometry term once (transform and
\* geometry column of the primary layer when it defines them, else of the joined
\* layer), every column of both layers qualified by its own table, FROM primary JOIN
\* secondary ON the join predicate, WHERE the primary layer's area-id predicate; the
\* result carries the primary layer's table and display name.
C16_JoinQueryShape ==
    (call.fn = "JoinQuery" /\ ret.state = "returned") =>
        LET q1 == call.query1
            q2 == call.query2
            sql == ret.value.to_query
            x == IF Defines(q1.geometry_transformation) THEN q1.geometry_transformation
                 ELSE q2.geometry_transformation
            g == IF Defines(q1.geometry_column) THEN q1.geometry_column ELSE q2.geometry_column
        IN  /\ SelectList(sql) =
                  GeometryTerm(x, g) \o <<",">>
                  \o Columns(<<q1.table, ".">>, q1.non_geometry_columns) \o <<",">>
                  \o Columns(<<q2.table, ".">>, q2.non_geometry_columns)
            /\ FromClause(sql) =
                  <<"FROM", q1.table, "JOIN", q2.table, "ON">> \o call.join_on
                  \o <<"WHERE", q1.table, ".", "area_id", "=", "$1", ";">>
            /\ Occurrences(sql, "ST_AsKML") + Occurrences(sql, "ST_AsGeoJSON") = 1
            /\ Occurrences(sql, "SELECT") = 1 /\ Occurrences(sql, ";") = 1
            /\ ret.value.table = q1.table
            /\ ret.value.name = q1.name

C16_Witness ==
    /\ call.fn = "JoinQuery" /\ ret.state = "returned"
    /\ call.query1.geometry_transformation # call.query2.geometry_transformation
    /\ Occurrences(ret.value.to_query, "decision_points_warnings") = 3

\* C17: constructing a Query raises when the selected locale is not supported or when
\* its name table has no entry for the table; no Query has an undefined name.
C17_UnknownNameRaises ==
    (call.fn = "Query" /\ ret.state # "none") =>
        LET l == SelectedLocale(call.lang)
            known == IF l \in SupportedLocales THEN call.table \in DOMAIN names[l] ELSE FALSE
        IN  /\ ~known => ret.state = "threw"
            /\ ret.state = "returned" => ret.value.name # Undefined

\* the colours a Style element carries, in order, and the colour a call stores
EmittedColours(style) ==
    LET stylings == SelectSeq(style.Style[2].stylings, LAMBDA s : "color" \in DOMAIN s)
    IN  [i \in DOMAIN stylings |-> stylings[i].color]
StoredColour == call.styles[1].color
CharReverse(s) == [i \in DOMAIN s |-> s[Len(s) + 1 - i]]

\* C18: every colour of the style catalog is emitted with its four bytes reversed and
\* the two hex digits of each byte in their stored order (ffc107ff as ff07c1ff).
C18_ColourBytesReversed ==
    (call.fn = "newStyle" /\ ret.state = "returned" /\ StoredColour \in CatalogColours) =>
        EmittedColours(ret.value) = <<ByteReverse(StoredColour)>>

C20_AssemblerIdempotent ==
    call.fn = "assemble" =>
        /\ ret.state = "first" => ret.rows = call.rows
        /\ ret.state = "again" => ret.run = ret.first /\ ret.rows = call.rows

C20_Witness ==
    /\ call.fn = "assemble" /\ ret.state = "again" /\ ret.run.state = "returned"
    /\ Len(call.rows) = 2 /\ Len(ret.run.value.features) = 1
    /\ "type" \in DOMAIN call.rows[1] /\ "type" \notin DOMAIN ret.run.value.features[1].properties

\* the rows either warnify has a bucket for, and the rest of the input without the others
GeoJsonBucketRow(row) == Slug(row["type"]) \in {S_concern, S_managing_risk}
KmlBucketRow(row) == row["type"] \in {S_Concern, S_ManagingRisk}
\* the aggregated decision-points rows of either export for the fetched rows
GeoJsonAggregate(rows) == geojsonWarnify(FeaturesOfRows(rows).val)
KmlAggregate(rows) ==
    kmlDecisionPoints(kmlQuerySettles(KmlQueries("en")[5], styleUrls, [kind |-> "rows", rows |-> rows]),
                      styleUrls)
FeaturesAt(features, c) == SelectSeq(features, LAMBDA f : f.geometry.coordinates = c)
PlacemarksAt(placemarks, c) == SelectSeq(placemarks, LAMBDA p : PlacemarkCoordinates(p) = c)

FeatureLayer(feature) == CHOOSE i \in Layers : GeoJsonQueries[i].table = feature.properties["table"]
LayerFeatures(doc, i) == SelectSeq(doc.features, LAMBDA f : FeatureLayer(f) = i)
DocumentEntries(doc) == doc[1].kml[2].Document
Folders(doc) ==
    LET entries == SelectSeq(DocumentEntries(doc), LAMBDA e : "Folder" \in DOMAIN e)
    IN  [i \in DOMAIN entries |-> entries[i].Folder]
FolderPlacemarks(folder) ==
    LET entries == SelectSeq(folder, LAMBDA e : "Placemark" \in DOMAIN e)
    IN  [i \in DOMAIN entries |-> entries[i].Placemark]
FolderName(folder) == folder[Len(folder)].name
QueriesSettled == \A i \in Layers : clientQuery[i].state \in {"resolved", "rejected"}

\* C22: the document is assembled only after every per-layer query has completed, the
\* features of the FeatureCollection and the Folders of the KML document follow the
\* order the layers are declared in, and within a layer the order of its rows.
C22_FanInOrder ==
    /\ (pc \in {"assembled", "done"} \/ docPromise.state # "pending") => QueriesSettled
    /\ (format = "GeoJSON" /\ docPromise.state = "resolved") =>
          LET doc == docPromise.value
          IN  /\ \A a, b \in DOMAIN doc.features :
                    a < b => FeatureLayer(doc.features[a]) <= FeatureLayer(doc.features[b])
              /\ \A i \in Layers :
                    LET rows == clientQuery[i].rows
                        given == [j \in DOMAIN rows |-> rows[j]["geometry"].json]
                        mine == LayerFeatures(doc, i)
                    IN  [j \in DOMAIN mine |-> mine[j].geometry] =
                            IF GeoJsonQueries[i].table = "decision_points" THEN Uniq(given) ELSE given
    /\ (format = "KML" /\ docPromise.state = "resolved") =>
          LET folders == Folders(docPromise.value)
          IN  /\ [i \in DOMAIN folders |-> FolderName(folders[i])] =
                    [i \in Layers |-> KmlQueries(lang)[i].name]
              /\ \A i \in Layers :
                    LET rows == clientQuery[i].rows
                        mine == FolderPlacemarks(folders[i])
                    IN  [j \in DOMAIN mine |-> mine[j][1]] =
                            IF KmlQueries(lang)[i].table = "decision_points"
                            THEN Uniq([j \in DOMAIN rows |-> getGeometry(rows[j])])
                            ELSE [j \in DOMAIN rows |-> getGeometry(rows[j])]

C22_Witness ==
    /\ format = "GeoJSON" /\ docPromise.state = "resolved"
    /\ Len(LayerFeatures(docPromise.value, 2)) = 2
    /\ \A i \in Layers : LayerFeatures(docPromise.value, i) # <<>>

\* the placemarks the query stage or, for decision_points, warnify produced for layer i
LayerPlacemarks(i) ==
    IF KmlQueries(lang)[i].table = "decision_points"
    THEN kmlDecisionPoints(queryPromise[i].value, styleUrls).val
    ELSE queryPromise[i].value.rows
NamedEntries(entries) == SelectSeq(entries, LAMBDA e : "name" \in DOMAIN e)

\* C23: a built KML document has one Folder per layer, the aggregated decision-points
\* layer included; the Folder holds that layer's placemarks and carries the layer's
\* display name for the request locale, and the Document's name is the name column of
\* the area layer's single row.
C23_KmlDocument ==
    (format = "KML" /\ docPromise.state = "resolved") =>
        LET doc == docPromise.value
            folders == Folders(doc)
        IN  /\ Len(folders) = Cardinality(Layers)
            /\ \A i \in Layers :
                  /\ FolderPlacemarks(folders[i]) = LayerPlacemarks(i)
                  /\ Len(folders[i]) = Len(LayerPlacemarks(i)) + 1
                  /\ NamedEntries(folders[i]) = <<[name |-> names[lang][KmlQueries(lang)[i].table]]>>
            /\ Len(clientQuery[1].rows) = 1
            /\ NamedEntries(DocumentEntries(doc)) = <<[name |-> clientQuery[1].rows[1]["name"]]>>

C23_Witness ==
    /\ format = "KML" /\ lang = "fr" /\ docPromise.state = "resolved"
    /\ Len(FolderPlacemarks(Folders(docPromise.value)[5])) = 1
    /\ Len(clientQuery[5].rows) = 2
    /\ FolderPlacemarks(Folders(docPromise.value)[6]) = <<>>

UnknownGeometry(row) == GeometryLogs(xml_parse_string(row["geometry"]))

\* C24: a row whose KML geometry is of an unrecognized kind still yields a placemark,
\* and no entry of that placemark, its first entry in particular, is a log message or
\* another value that is not an element.
C24_UnknownGeometryOmitted ==
    (call.fn = "newPlaceMark" /\ ret.state # "none" /\ UnknownGeometry(call.row)) =>
        /\ ret.state = "returned"
        /\ \A i \in DOMAIN ret.value : ~IsPrimitive(ret.value[i])

\* the entries of a placemark with the given key, and the place of an entry in the
\* order name, description, extended data, styleUrl
EntriesWith(placemark, key) == SelectSeq(placemark, LAMBDA e : key \in DOMAIN e)
EntryRank(e) ==
    CASE "name" \in DOMAIN e -> 1
      [] "description" \in DOMAIN e -> 2
      [] "ExtendedData" \in DOMAIN e -> 3
      [] "styleUrl" \in DOMAIN e -> 4
      [] OTHER -> 0
\* the values of the row's comments, description and type columns that are set, in this order
DescribedColumns(row) ==
    LET columns == SelectSeq(<<"comments", "description", "type">>, LAMBDA k : TruthyStr(row, k))
    IN  [i \in DOMAIN columns |-> [description |-> row[columns[i]]]]

\* C25: a placemark newPlaceMark returns starts with the geometry it was given and ends
\* with its only styleUrl entry; in between come, in this order, the name, the
\* descriptions made of comments, description and type, and the extended data.
C25_PlacemarkEntryOrder ==
    (call.fn = "newPlaceMark" /\ ret.state = "returned") =>
        LET placemark == ret.value
            n == Len(placemark)
        IN  /\ n >= 2
            /\ placemark[1] = getGeometry(call.row)
            /\ Len(EntriesWith(placemark, "styleUrl")) = 1
            /\ "styleUrl" \in DOMAIN placemark[n]
            /\ \A i \in 2..n : EntryRank(placemark[i]) > 0
            /\ \A i, j \in 2..n : i < j => EntryRank(placemark[i]) <= EntryRank(placemark[j])
            /\ EntriesWith(placemark, "name") =
                    IF TruthyStr(call.row, "name") THEN <<[name |-> call.row["name"]]>> ELSE <<>>
            /\ EntriesWith(placemark, "description") = DescribedColumns(call.row)
            /\ Len(EntriesWith(placemark, "ExtendedData")) =
                    IF TruthyNum(call.row, "class_code") \/ "warnings" \in DOMAIN call.row THEN 1 ELSE 0

C25_Witness ==
    /\ call.fn = "newPlaceMark" /\ ret.state = "returned" /\ Len(ret.value) = 5
    /\ TruthyStr(call.row, "name") /\ TruthyStr(call.row, "comments") /\ TruthyStr(call.row, "type")
    /\ EntryRank(ret.value[2]) = 1 /\ EntryRank(ret.value[4]) = 2

\* the rows of the call at coordinate pair c: all of them, or those with a bucket
GroupRows(c, all) ==
    SelectSeq(call.rows, LAMBDA r : r["geometry"].json.coordinates = c /\ (all \/ GeoJsonBucketRow(r)))
\* the keys of a row that are neither consumed by the aggregation nor the geometry
OtherKeys(row) == DOMAIN row \ {"type", "warning", "geometry"}
Carrying(rows, k) == SelectSeq(rows, LAMBDA r : k \in OtherKeys(r))
\* every emitted feature is a decision_points Point at its group's coordinate pair with
\* the two lists as a JSON string and no type or warning; a key several of the counted
\* rows carry has the value of the last of them
MergedProperties(all) ==
    /\ ret.state = "returned"
    /\ \A i \in DOMAIN ret.value :
          LET f == ret.value[i]
              c == f.geometry.coordinates
              rows == GroupRows(c, all)
          IN  /\ f.properties["table"] = "decision_points"
              /\ f.geometry.type = "Point"
              /\ c \in CoordinatePairs(GivenFeatures)
              /\ f.properties["warnings"] =
                    JSONstringify([t \in {S_managing_risk, S_concern} |-> TextsAt(GivenFeatures, c, t)])
              /\ "type" \notin DOMAIN f.properties
              /\ "warning" \notin DOMAIN f.properties
              /\ \A k \in UNION {OtherKeys(rows[j]) : j \in DOMAIN rows} :
                    LET carrying == Carrying(rows, k)
                    IN  Len(carrying) >= 2 =>
                            /\ k \in DOMAIN f.properties
                            /\ f.properties[k] = carrying[Len(carrying)][k]

\* C26, as claimed: each emitted decision-point feature has table decision_points, a
\* Point geometry at its group's coordinate pair, the two lists as a JSON string in
\* warnings and no type or warning property, and for every other key that several
\* rows of the group carry the value of the last of those rows.
C26_LastRowWins ==
    (call.fn = "geojsonWarnify" /\ ret.state # "none") => MergedProperties(TRUE)

\* C26, amended: the same, the rows counted for the other keys being the rows of the
\* group that were not skipped.
C26_LastKeptRowWins ==
    (call.fn = "geojsonWarnify" /\ ret.state # "none") => MergedProperties(FALSE)

C26_Witness ==
    /\ call.fn = "geojsonWarnify" /\ ret.state = "returned"
    /\ Len(call.rows) = 2 /\ Len(ret.value) = 1
    /\ GeoJsonBucketRow(call.rows[1]) /\ GeoJsonBucketRow(call.rows[2])
    /\ call.rows[1]["name"] # call.rows[2]["name"]
    /\ ret.value[1].properties["name"] = call.rows[2]["name"]

\* the same joined row as the GeoJSON query returns it
AsGeoJsonRow(r) ==
    LET c == CHOOSE p \in DecisionPointCoordinates :
                 KmlCoord(p[1], p[2]) = r["geometry"].xml.Point.coordinates
    IN  GeoJsonDecisionPointRow(c, r["type"], r["warning"])
\* the two lists of a GeoJSON decision-point feature under the KML bucket names
ListsAsBuckets(feature) ==
    [t \in {S_ManagingRisk, S_Concern} |->
        feature.properties["warnings"].json[IF t = S_Concern THEN S_concern ELSE S_managing_risk]]

KmlRowsAt(c) == SelectSeq(call.rows, LAMBDA r : r["geometry"].xml.Point.coordinates = c)

\* C28: the placemark of an aggregated decision point is named by the name column of
\* the rows at its coordinates and, next to the warnings table, has their comments as
\* a description when they carry comments.
C28_KmlAggregateKeepsColumns ==
    (call.fn = "kmlWarnify" /\ ret.state = "returned") =>
        \A i \in DOMAIN ret.value :
            LET placemark == ret.value[i]
                first == KmlRowsAt(PlacemarkCoordinates(placemark))[1]
                descriptions == EntriesWith(placemark, "description")
            IN  /\ EntriesWith(placemark, "name") = <<[name |-> first["name"]]>>
                /\ \E d \in DOMAIN descriptions : Head(descriptions[d].description) = HtmlStyleBlock
                /\ TruthyStr(first, "comments") =>
                      \E d \in DOMAIN descriptions : descriptions[d].description = first["comments"]

\* C29: newPlaceMark on a row with both a warnings payload and a class_code returns a
\* placemark with exactly one ExtendedData block, which holds the warnings entry and
\* the class_code entry and is followed by the styleUrl.
C29_BothExtensions ==
    (call.fn = "newPlaceMark" /\ ret.state # "none"
       /\ "warnings" \in DOMAIN call.row /\ TruthyNum(call.row, "class_code")) =>
        /\ ret.state = "returned"
        /\ LET placemark == ret.value
               n == Len(placemark)
               blocks == EntriesWith(placemark, "ExtendedData")
           IN  /\ Len(blocks) = 1
               /\ {<<e.extension, e.data>> : e \in Range(blocks[1].ExtendedData)} =
                     {<<"warnings", call.row["warnings"]>>, <<"class_code", call.row["class_code"]>>}
               /\ n >= 2 /\ "ExtendedData" \in DOMAIN placemark[n - 1]
               /\ "styleUrl" \in DOMAIN placemark[n]

JsonGeometry(row) == "json" \in DOMAIN row["geometry"]

\* C30: a row whose geometry is JSON text yields a Feature whatever its other columns
\* hold, a null type included, and the rows of a layer that all have such a geometry
\* are assembled into a FeatureCollection.
C30_NullTypeTolerated ==
    /\ (call.fn = "Feature" /\ ret.state # "none" /\ JsonGeometry(call.row)) => ret.state = "returned"
    /\ (call.fn = "assemble" /\ ret.state = "first" /\ \A i \in DOMAIN call.rows : JsonGeometry(call.rows[i])) =>
          ret.run.state = "returned"

====
